---- MODULE Spec2Model ----
(***************************************************************************)
(* Model of the grounding / streaming-relay / answer-sanitization pipeline *)
(* of the stone-carving discovery app: the standalone AI server and the    *)
(* edge functions that mirror it.                                          *)
(*                                                                         *)
(* Text is modelled as a sequence of tokens.  A token is one character or  *)
(* one fixed literal of the marker syntax:                                 *)
(*   "["  "]"        ASCII brackets                                        *)
(*   "LB" "RB"       the full-width brackets U+3010 / U+3011               *)
(*   "CARD"          the four-character literal of the marker keyword      *)
(*   ":"  "FC"       ASCII colon / full-width colon U+FF1A                 *)
(*   "A"             the literal artifact- (all of it id characters)       *)
(*   "1" "2" "9"     id characters                                         *)
(*   "|"  "FB"       ASCII bar / full-width bar U+FF5C                     *)
(*   " "  "\n"       whitespace                                            *)
(*   "x"             any other character of running text                   *)
(*   "SYS"           the fixed note of the system-appended marker          *)
(***************************************************************************)
EXTENDS Integers, Sequences, FiniteSets, TLC

VARIABLES
    raw,        \* sanitizer: the raw answer text handed to sanitizeAnswerContent
    ctx,        \* the answer context {allowedArtifactIds, question, primaryArtifactId, primaryArtifactScore}
    out,        \* sanitizer: the returned text
    sphase,     \* sanitizer: "input" while the raw answer is assembled, "done" after the call
    \* ---- one chat / chat-stream request ----
    variant,          \* "server" (standalone node server) or "edge" (pages function)
    endpoint,         \* "chat" (callBigModel) or "chat-stream" (callBigModelStream)
    hasApiKey,        \* whether BIGMODEL_API_KEY is configured
    maxRetries,       \* MAX_RETRIES / cfg.maxRetries
    hpc,              \* where the request handler is
    cpc,              \* where the upstream call is
    attempt,          \* the loop variable of the retry loop (0 before the loop)
    timerArmed,       \* the per-attempt abort timer is pending
    receivedAnyChunk, \* callBigModelStream's flag of the current attempt
    respStatus,       \* status of the response of the current attempt (0: none)
    buffer,           \* the SSE line buffer of the read loop
    fullAnswer,       \* the handler's accumulated answer
    modelName,        \* the handler's model name
    response,         \* callBigModel's return value (the assistant text of the body)
    pendingWrites,    \* edge: events handed to the stream writer and not yet consumed
    events,           \* the events on the wire, in order
    closed,           \* the transport was ended (res.end / stream.close / JSON response sent)
    httpStatus,       \* status of the HTTP response (0: no headers yet)
    lastError,        \* the call's lastError
    clientConnected,  \* the caller is still connected
    reads,            \* chunks read in the current call
    backoffs,         \* history: the delays slept so far, in order
    inFlight,         \* history: attempts started and not yet ended
    prevOutcome,      \* history: how the latest ended attempt ended
    deltaAttempts,    \* history: the attempts during which onDelta was called
    upstreamDeltas,   \* history: the non-empty deltas parsed from the upstream stream, in order
    \* ---- grounding ----
    catalog,          \* ARTIFACT_CATALOG
    gInput,           \* the request body handed to resolveArtifactGrounding
    grounding,        \* the value resolveArtifactGrounding returned
    gphase,           \* "boot" before the catalog is loaded, "serve" after, then the handler's position
    payload,          \* the payload buildChatPayload returned
    groundingCalls,   \* history: the calls of resolveArtifactGrounding in the request
    webSearchEnabled, \* WEB_SEARCH_ENABLED / cfg.webSearchEnabled
    \* ---- POST /api/ai/wish ----
    wishReq,          \* the request body as sent
    wpc,              \* "off", "start", "model" while pickWishByModel is awaited, "done"
    wishResp,         \* the response
    \* ---- POST /api/ai/enrich ----
    enrichReq,        \* the request body as sent
    epc,              \* "off", "start", "model" while callBigModel is awaited, "done"
    enrichCandidates, \* the candidates picked for the request
    enrichResp,       \* the response
    enrichFetched,    \* history: an upstream fetch was made for the request
    \* ---- normalizeSearchText ----
    normIn,           \* the value handed to normalizeSearchText
    normOnce,         \* what it returned
    normTwice,        \* what it returned for normOnce
    npc,              \* "off", "input", "once", "twice"
    \* ---- the read loop of callBigModelStream over one upstream stream ----
    sseStream,        \* the upstream stream as sent
    ssePos,           \* how much of it the reader has delivered
    sseBuffer,        \* the loop's buffer
    sseDelivered,     \* history: the deltas handed to onDelta, in order
    sseCutFrame,      \* history: a chunk ended in the middle of a line
    ssepc,            \* "off", "read", "done"
    \* ---- concurrent chat-stream requests ----
    requests,         \* per request: its handler's local variables and what it wrote
    \* ---- the scoring body of pickArtifactCandidates ----
    scQuery,          \* queryText
    scScored,         \* per catalog item: score, structuredHitCount, summaryHitCount
    \* ---- the client's requestBackendStream ----
    clResponse,       \* the response of fetch: "stream", "notOk" or "noBody"
    clLines,          \* the lines of the response body
    clCut,            \* whether the body ends inside its last line
    clPos,            \* the lines read
    clAnswer,         \* let answer
    clTerminal,       \* the done or error event that was read, if any
    clOutcome,        \* what the call did: pending, returned a value, or raised
    clpc              \* where the call is

sanVars == <<raw, out, sphase>>

reqVars == <<variant, endpoint, hasApiKey, maxRetries, hpc, cpc, attempt, timerArmed,
             receivedAnyChunk, respStatus, buffer, fullAnswer, modelName, response,
             pendingWrites, events, closed, httpStatus, lastError, clientConnected,
             reads, backoffs, inFlight, prevOutcome, deltaAttempts, upstreamDeltas>>

groundVars == <<catalog, gInput, grounding, gphase, payload, groundingCalls, webSearchEnabled>>

wishVars == <<wishReq, wpc, wishResp>>

enrichVars == <<enrichReq, epc, enrichCandidates, enrichResp, enrichFetched>>

normVars == <<normIn, normOnce, normTwice, npc>>

sseVars == <<sseStream, ssePos, sseBuffer, sseDelivered, sseCutFrame, ssepc>>

scoreVars == <<scQuery, scScored>>

clientVars == <<clResponse, clLines, clCut, clPos, clAnswer, clTerminal, clOutcome, clpc>>

moreVars == <<scoreVars, clientVars>>

extraVars == <<sseVars, requests, moreVars>>

auxVars == <<wishVars, enrichVars, normVars, extraVars>>

vars == <<sanVars, ctx, reqVars, groundVars, auxVars>>

----------------------------------------------------------------------------
(* Generic text helpers                                                    *)

IsWs(c) == c \in {" ", "\n", "\r"}

\* [a-zA-Z0-9_-]; "a" stands for one letter of a cut-off artifact- literal
IsIdChar(c) == c \in {"A", "a", "1", "2", "9"}

RECURSIVE SkipWs(_, _)
\* index of the first token at or after i that is not whitespace (Len+1 if none)
SkipWs(s, i) ==
    IF i > Len(s) THEN i
    ELSE IF IsWs(s[i]) THEN SkipWs(s, i + 1) ELSE i

RECURSIVE IdEnd(_, _)
\* index after the maximal run of id characters starting at i
IdEnd(s, i) ==
    IF i > Len(s) THEN i
    ELSE IF IsIdChar(s[i]) THEN IdEnd(s, i + 1) ELSE i

RECURSIVE FindFirst(_, _, _)
\* index of the first token at or after i that is in stop (Len+1 if none)
FindFirst(s, i, stop) ==
    IF i > Len(s) THEN i
    ELSE IF s[i] \in stop THEN i ELSE FindFirst(s, i + 1, stop)

RECURSIVE TrimLeft(_)
TrimLeft(s) ==
    IF s = <<>> THEN s
    ELSE IF IsWs(Head(s)) THEN TrimLeft(Tail(s)) ELSE s

RECURSIVE TrimRight(_)
TrimRight(s) ==
    IF s = <<>> THEN s
    ELSE IF IsWs(s[Len(s)]) THEN TrimRight(SubSeq(s, 1, Len(s) - 1)) ELSE s

\* String.prototype.trim
Trim(s) == TrimRight(TrimLeft(s))

\* safeString on a value that is a string
safeString(s) == Trim(s)

\* number of characters a token stands for
Width(t) == IF t = "CARD" THEN 4 ELSE IF t = "A" THEN 9 ELSE IF t = "SYS" THEN 11 ELSE 1

RECURSIVE CharLen(_)
\* String.prototype.length
CharLen(s) == IF s = <<>> THEN 0 ELSE Width(Head(s)) + CharLen(Tail(s))

RECURSIVE TakeChars(_, _)
\* value.slice(0, n); a literal cut in the middle leaves n characters of its class
TakeChars(s, n) ==
    IF n <= 0 \/ s = <<>> THEN <<>>
    ELSE IF Width(Head(s)) <= n
         THEN <<Head(s)>> \o TakeChars(Tail(s), n - Width(Head(s)))
         ELSE [k \in 1..n |-> IF Head(s) = "A" THEN "a" ELSE "x"]

\* clipText: value.length <= maxLength ? value : value.slice(0, maxLength) + "..."
clipText(value, maxLength) ==
    IF CharLen(value) <= maxLength THEN value
    ELSE TakeChars(value, maxLength) \o <<".", ".", ".">>

----------------------------------------------------------------------------
(* Marker syntax                                                           *)

NOTE_CLIP == 28
MARKER_CAP == 3
FORCE_SCORE == 120

MarkerHead == <<"[", "CARD", ":">>

NoMatch == [ok |-> FALSE, id |-> <<>>, seg |-> <<>>, next |-> 0]

\* One match attempt of  \[CARD:(artifact-[a-zA-Z0-9_-]+)(\|[^\]]*)?]  at index i:
\* id is the first capture (with its artifact- prefix), seg the second capture
\* (the bar and the note, or empty), next the index after the match.
MarkerAt(s, i) ==
    IF i + 3 > Len(s) THEN NoMatch
    ELSE IF SubSeq(s, i, i + 2) # MarkerHead \/ s[i + 3] # "A" THEN NoMatch
    ELSE LET j == IdEnd(s, i + 4)
         IN  IF j = i + 4 \/ j > Len(s) THEN NoMatch
             ELSE IF s[j] = "]"
                  THEN [ok |-> TRUE, id |-> SubSeq(s, i + 3, j - 1), seg |-> <<>>, next |-> j + 1]
             ELSE IF s[j] = "|"
                  THEN LET k == FindFirst(s, j + 1, {"]"})
                       IN  IF k > Len(s) THEN NoMatch
                           ELSE [ok |-> TRUE, id |-> SubSeq(s, i + 3, j - 1),
                                 seg |-> SubSeq(s, j, k - 1), next |-> k + 1]
             ELSE NoMatch

\* One match attempt of the canonicalisation pattern at index i:
\*  [LB\[]\s*CARD[FC:]\s*(artifact-[a-zA-Z0-9_-]+)\s*(?:[|FB]\s*([^\]RB]+))?\s*[RB\]]
\* seg is the second capture (the note), which the callback trims.
LooseMarkerAt(s, i) ==
    IF i > Len(s) \/ s[i] \notin {"[", "LB"} THEN NoMatch
    ELSE LET a == SkipWs(s, i + 1)
         IN  IF a + 1 > Len(s) \/ s[a] # "CARD" \/ s[a + 1] \notin {":", "FC"} THEN NoMatch
             ELSE LET b == SkipWs(s, a + 2)
                  IN  IF b > Len(s) \/ s[b] # "A" THEN NoMatch
                      ELSE LET j == IdEnd(s, b + 1)
                               w == SkipWs(s, j)
                           IN  IF j = b + 1 \/ w > Len(s) THEN NoMatch
                               ELSE IF s[w] \in {"]", "RB"}
                                    THEN [ok |-> TRUE, id |-> SubSeq(s, b, j - 1), seg |-> <<>>, next |-> w + 1]
                               ELSE IF s[w] \in {"|", "FB"}
                                    THEN LET k == FindFirst(s, w + 1, {"]", "RB"})
                                         IN  IF k > Len(s) \/ k = w + 1 THEN NoMatch
                                             ELSE [ok |-> TRUE, id |-> SubSeq(s, b, j - 1),
                                                   seg |-> SubSeq(s, w + 1, k - 1), next |-> k + 1]
                               ELSE NoMatch

\* the canonical form  [CARD:<id>|<note>]  (note part only when non-empty)
MarkerText(id, note) ==
    MarkerHead \o id \o (IF note = <<>> THEN <<>> ELSE <<"|">> \o note) \o <<"]">>

RECURSIVE CanonScan(_, _)
CanonScan(s, i) ==
    IF i > Len(s) THEN <<>>
    ELSE LET m == LooseMarkerAt(s, i)
         IN  IF m.ok THEN MarkerText(m.id, safeString(m.seg)) \o CanonScan(s, m.next)
             ELSE <<s[i]>> \o CanonScan(s, i + 1)

canonicalizeCardMarkerSyntax(text) == CanonScan(safeString(text), 1)

RECURSIVE MarkerScan(_, _, _, _)
\* the first replace of sanitizeAnswerContent: text is the replaced string,
\* count the final markerCount
MarkerScan(s, i, count, allowedSet) ==
    IF i > Len(s) THEN [text |-> <<>>, count |-> count]
    ELSE LET m == MarkerAt(s, i)
         IN  IF ~m.ok
             THEN LET r == MarkerScan(s, i + 1, count, allowedSet)
                  IN  [text |-> <<s[i]>> \o r.text, count |-> r.count]
             ELSE IF allowedSet = {} \/ m.id \notin allowedSet
             THEN MarkerScan(s, m.next, count, allowedSet)
             ELSE LET r == MarkerScan(s, m.next, count + 1, allowedSet)
                      note == safeString(IF m.seg = <<>> THEN <<>> ELSE Tail(m.seg))
                      kept == IF count + 1 > MARKER_CAP THEN <<>>
                              ELSE MarkerText(m.id, IF note = <<>> THEN <<>> ELSE clipText(note, NOTE_CLIP))
                  IN  [text |-> kept \o r.text, count |-> r.count]

RECURSIVE LayoutScan(_, _)
\* the second replace:  \s*<marker>\s*  ->  \n<marker>\n
LayoutScan(s, i) ==
    IF i > Len(s) THEN <<>>
    ELSE LET m == MarkerAt(s, SkipWs(s, i))
         IN  IF m.ok
             THEN <<"\n">> \o MarkerHead \o m.id \o m.seg \o <<"]", "\n">>
                  \o LayoutScan(s, SkipWs(s, m.next))
             ELSE <<s[i]>> \o LayoutScan(s, i + 1)

RECURSIVE NlRunEnd(_, _)
NlRunEnd(s, i) ==
    IF i > Len(s) THEN i
    ELSE IF s[i] = "\n" THEN NlRunEnd(s, i + 1) ELSE i

RECURSIVE CollapseNewlines(_, _)
\* replace(/\n{3,}/g, "\n\n")
CollapseNewlines(s, i) ==
    IF i > Len(s) THEN <<>>
    ELSE IF s[i] = "\n"
         THEN LET e == NlRunEnd(s, i)
              IN  (IF e - i >= 3 THEN <<"\n", "\n">> ELSE SubSeq(s, i, e - 1))
                  \o CollapseNewlines(s, e)
         ELSE <<s[i]>> \o CollapseNewlines(s, i + 1)

\* Questions are modelled by the keyword they carry:
\*   "" (empty), "intro" (no intent keyword), "which" (a keyword of both intent
\*   patterns, e.g. the which-piece words), "recommend" (a keyword only of the
\*   force-marker pattern), "which_room" (a keyword only of the web-search pattern)
Questions == {"", "intro", "which", "recommend", "which_room"}

shouldForceMarkerByIntent(question) ==
    IF question = "" THEN FALSE ELSE question \in {"which", "recommend"}

SysNote == <<"SYS">>

sanitizeAnswerContent(answer, context) ==
    LET rawText == canonicalizeCardMarkerSyntax(safeString(answer))
    IN  IF rawText = <<>> THEN <<>>
        ELSE LET allowedSet == context.allowedArtifactIds
                 first == MarkerScan(rawText, 1, 0, allowedSet)
                 laid == LayoutScan(first.text, 1)
                 normalized == Trim(CollapseNewlines(laid, 1))
                 fallbackId ==
                     IF /\ context.primaryArtifactId # <<>>
                        /\ context.primaryArtifactId \in allowedSet
                        /\ context.primaryArtifactScore >= FORCE_SCORE
                     THEN context.primaryArtifactId ELSE <<>>
             IN  IF first.count = 0 /\ shouldForceMarkerByIntent(context.question) /\ fallbackId # <<>>
                 THEN Trim(normalized \o <<"\n", "\n">> \o MarkerHead \o fallbackId \o <<"|">> \o SysNote \o <<"]">>)
                 ELSE normalized

----------------------------------------------------------------------------
(* Sanitizer specification: raw answers assembled from fragments           *)

MaxPieces == 4

Id1 == <<"A", "1">>
Id2 == <<"A", "2">>
Id9 == <<"A", "9">>

\* fragments a raw answer is assembled from
Pieces ==
    { <<"x">>, <<"\n">>, <<"]">>, <<"9">>,
      <<"[", "CARD", ":", "A">>,
      <<"[", "CARD", ":", "A", "1", "]">>,
      <<"[", "CARD", ":", "A", "9", "]">>,
      <<"LB", "CARD", "FC", "A", "2", "FB", " ", "x", "RB">> }

SanContexts ==
    { [allowedArtifactIds |-> {}, question |-> "which", primaryArtifactId |-> Id9, primaryArtifactScore |-> 200],
      [allowedArtifactIds |-> {Id1, Id2}, question |-> "intro", primaryArtifactId |-> Id1, primaryArtifactScore |-> 200],
      [allowedArtifactIds |-> {Id1, Id2}, question |-> "which", primaryArtifactId |-> Id1, primaryArtifactScore |-> 200],
      [allowedArtifactIds |-> {Id1, Id2}, question |-> "recommend", primaryArtifactId |-> Id2, primaryArtifactScore |-> 119] }

NoInput == [scope |-> <<>>, artifactId |-> <<>>, artifactName |-> <<>>, question |-> <<>>, history |-> <<>>]

\* if (!candidates.length) return the placeholder text
NoRefs == [placeholder |-> TRUE, lines |-> <<>>]

NoGrounding == [candidates |-> <<>>, candidateRefs |-> NoRefs, allowedArtifactIds |-> {},
                primaryArtifactId |-> <<>>, primaryArtifactScore |-> 0]

NoPayload == [built |-> FALSE, scope |-> "museum", candidateRefs |-> NoRefs, question |-> <<>>, stream |-> FALSE,
              tools |-> FALSE, messages |-> <<>>]

\* no catalog is loaded and no grounding computed
GroundIdle ==
    /\ catalog = <<>> /\ gInput = NoInput /\ grounding = NoGrounding /\ gphase = "off"
    /\ payload = NoPayload /\ groundingCalls = 0
    /\ webSearchEnabled = TRUE

\* no request is being handled
NoWishReq == [body |-> "ok", wish |-> <<>>, candidates |-> <<>>]

NoWishResp == [status |-> 0, id |-> <<>>, via |-> "none"]

\* no wish request is handled
WishIdle == wishReq = NoWishReq /\ wpc = "off" /\ wishResp = NoWishResp

NoEnrichReq == [body |-> "ok", question |-> <<>>, answer |-> <<>>, scope |-> <<>>, artifactId |-> <<>>,
                artifactName |-> <<>>]

NoEnrichResp == [status |-> 0, recommendations |-> <<>>, citations |-> <<>>, via |-> "none"]

\* no enrich request is handled
EnrichIdle ==
    /\ enrichReq = NoEnrichReq /\ epc = "off" /\ enrichCandidates = <<>>
    /\ enrichResp = NoEnrichResp /\ enrichFetched = FALSE

\* a JavaScript value: a string with its text, or a value of another type
JsString(text) == [type |-> "string", text |-> text]
JsOther(type) == [type |-> type, text |-> <<>>]

\* normalizeSearchText is not running
NormIdle == normIn = JsString(<<>>) /\ normOnce = <<>> /\ normTwice = <<>> /\ npc = "off"

\* no stream is being read
SseIdle ==
    /\ sseStream = <<>> /\ ssePos = 0 /\ sseBuffer = <<>> /\ sseDelivered = <<>>
    /\ sseCutFrame = FALSE /\ ssepc = "off"

\* no concurrent requests are modelled
ConcIdle == requests = <<>>

\* no scoring run is modelled
ScoreIdle == scQuery = <<>> /\ scScored = <<>>

NoEvent == [type |-> "none", delta |-> <<>>, answer |-> <<>>, model |-> "", error |-> "none"]

Pending == [kind |-> "pending", value |-> <<>>, error |-> "none"]

\* no client call is modelled
ClientIdle ==
    /\ clResponse = "stream" /\ clLines = <<>> /\ clCut = FALSE /\ clPos = 0 /\ clAnswer = <<>>
    /\ clTerminal = NoEvent /\ clOutcome = Pending /\ clpc = "off"

MoreIdle == ScoreIdle /\ ClientIdle

ExtraIdle == SseIdle /\ ConcIdle /\ MoreIdle

AuxIdle == WishIdle /\ EnrichIdle /\ NormIdle /\ ExtraIdle

\* no chat request is handled
ReqQuiet ==
    /\ endpoint = "chat" /\ maxRetries = 1
    /\ hpc = "off" /\ cpc = "idle" /\ attempt = 0 /\ timerArmed = FALSE
    /\ receivedAnyChunk = FALSE /\ respStatus = 0 /\ buffer = <<>> /\ fullAnswer = <<>>
    /\ modelName = "" /\ response = <<>> /\ pendingWrites = <<>> /\ events = <<>>
    /\ closed = FALSE /\ httpStatus = 0 /\ lastError = [kind |-> "none", status |-> 0] /\ clientConnected = TRUE
    /\ reads = 0 /\ backoffs = <<>> /\ inFlight = 0 /\ prevOutcome = [kind |-> "none", status |-> 0]
    /\ deltaAttempts = {} /\ upstreamDeltas = <<>>

ReqIdle == variant = "server" /\ hasApiKey = TRUE /\ ReqQuiet

SanInit ==
    /\ raw = <<>>
    /\ ctx \in SanContexts
    /\ out = <<>>
    /\ sphase = "input"
    /\ ReqIdle
    /\ GroundIdle
    /\ AuxIdle

\* the model writes one more fragment of the answer
AppendPiece ==
    /\ sphase = "input"
    /\ Len(raw) < MaxPieces
    /\ \E p \in Pieces : raw' = Append(raw, p)
    /\ UNCHANGED <<ctx, out, sphase, reqVars, auxVars, groundVars>>

RECURSIVE Flatten(_)
Flatten(ps) == IF ps = <<>> THEN <<>> ELSE Head(ps) \o Flatten(Tail(ps))

RawText == Flatten(raw)

\* the handler calls sanitizeAnswerContent on the finished answer
Sanitize ==
    /\ sphase = "input"
    /\ out' = sanitizeAnswerContent(RawText, ctx)
    /\ sphase' = "done"
    /\ UNCHANGED <<raw, ctx, reqVars, auxVars, groundVars>>

SanNext == AppendPiece \/ Sanitize

SpecSanitize == SanInit /\ [][SanNext]_vars

RECURSIVE MarkerIds(_, _)
\* ids of the markers of a text, in the left-to-right scan of the marker pattern
MarkerIds(s, i) ==
    IF i > Len(s) THEN <<>>
    ELSE LET m == MarkerAt(s, i)
         IN  IF m.ok THEN <<m.id>> \o MarkerIds(s, m.next) ELSE MarkerIds(s, i + 1)

\* C1: the output of sanitizeAnswerContent holds no marker whose id is outside
\* allowedArtifactIds and at most three markers, for every raw answer and allow-list
C1_OutputMarkersAllowedAndCapped ==
    sphase = "done" =>
        LET ids == MarkerIds(out, 1)
        IN  /\ \A n \in 1..Len(ids) : ids[n] \in ctx.allowedArtifactIds
            /\ Len(ids) <= MARKER_CAP

----------------------------------------------------------------------------
(* One chat / chat-stream request: handler, retry loop, upstream, transport *)

MAX_RETRIES_MIN == 1
MAX_RETRIES_MAX == 5
BACKOFF_MS == 350

MaxReads == 2

\* statuses the upstream answers with
Statuses == {200, 400, 408, 429, 500}

\* An SSE byte stream is a sequence of tokens: "\n", " ", and one token per line
\* content: a well-formed data: frame (FrameDelta gives its delta text), the
\* data: [DONE] sentinel, a data: frame that is not JSON, a line that is no
\* data: line.
FrameDelta ==
    [ D_x |-> <<"x">>,
      D_m1 |-> <<"[", "CARD", ":", "A", "1", "]">>,
      D_m9 |-> <<"[", "CARD", ":", "A", "9", "]">>,
      D_empty |-> <<>> ]

DataFrames == DOMAIN FrameDelta

\* what one reader.read() can deliver
Chunks ==
    { <<"D_x", "\n">>,
      <<"D_m9", "\n", "D_m1", "\n">>,
      <<"D_x">>,
      <<"\n", "CMT", "\n">>,
      <<"BAD", "\n", "DONE", "\n">>,
      <<"D_empty", "\n">> }

\* assistant texts a non-streaming response body can carry
BatchAnswers == { <<>>, <<"x">>, <<"[", "CARD", ":", "A", "9", "]">> }

ReqContexts ==
    { [allowedArtifactIds |-> {Id1}, question |-> "", primaryArtifactId |-> Id1, primaryArtifactScore |-> 200],
      [allowedArtifactIds |-> {Id1}, question |-> "intro", primaryArtifactId |-> Id1, primaryArtifactScore |-> 200],
      [allowedArtifactIds |-> {Id1}, question |-> "which", primaryArtifactId |-> Id1, primaryArtifactScore |-> 200] }

Ev(type, delta, answer, model, error) ==
    [type |-> type, delta |-> delta, answer |-> answer, model |-> model, error |-> error]

DeltaEvent_IncrementOnly(delta, full) == Ev("delta", delta, delta, "", "none")

\* { type: "delta", delta, answer: fullAnswer }
DeltaEvent(delta, full) == Ev("delta", delta, full, "", "none")

DoneEvent_RawAnswer(full, context, model) == Ev("done", <<>>, full, model, "none")

\* { type: "done", answer: normalizedAnswer, model: modelName }
DoneEvent(full, context, model) == Ev("done", <<>>, sanitizeAnswerContent(full, context), model, "none")

ErrorEvent_NotTerminal(err) == Ev("delta", <<>>, <<>>, "", err)

\* { type: "error", error: message }
ErrorEvent(err) == Ev("error", <<>>, <<>>, "", err)

\* response.status >= 500 || response.status === 429 || response.status === 408
Retryable(status) == status >= 500 \/ status = 429 \/ status = 408

BackoffDelay_Constant(n) == BACKOFF_MS

\* the argument of sleep(): attempt * 350
BackoffDelay(n) == n * BACKOFF_MS

\* callBigModel's catch: if (attempt < MAX_RETRIES) await sleep(...)
ShouldRetryBatch(n, max) == n < max

ShouldRetryStream_IgnoringChunks(n, max, received) == n < max

\* callBigModelStream's catch: if (attempt < MAX_RETRIES && !receivedAnyChunk)
ShouldRetryStream(n, max, received) == n < max /\ ~received

\* the retry taken on a non-OK response: if (retryable && attempt < MAX_RETRIES)
ShouldRetryStatus(status, n, max) == Retryable(status) /\ n < max

HttpError(status) == [kind |-> "http", status |-> status]
Failure(kind) == [kind |-> kind, status |-> 0]

\* handleError / the edge catch: /invalid json|required|too large/.test(message) ? 400 : 500
\* new Error(`bigmodel_http_${response.status}: ${text.slice(0, 900)}`)
UpstreamError(status, text) == [kind |-> "http", status |-> status, text |-> text]

\* texts of an upstream error body: without, and with, one of the words
\* "invalid json", "required", "too large"
ErrorTexts == {"plain", "required"}

\* /invalid json|required|too large/.test(message)
MessageNamesInputError(err) ==
    \/ err.kind \in {"invalid json", "required", "too large"}
    \/ err.kind = "http" /\ err.text = "required"

ErrorStatus(err) == IF MessageNamesInputError(err) THEN 400 ELSE 500

RECURSIVE SplitLines(_, _, _)
\* buffer.split(/\r?\n/): the complete lines and the rest after the last newline
SplitLines(s, i, cur) ==
    IF i > Len(s) THEN [lines |-> <<>>, rest |-> cur]
    ELSE IF s[i] = "\n"
         THEN LET r == SplitLines(s, i + 1, <<>>)
                  line == IF cur # <<>> /\ cur[Len(cur)] = "\r" THEN SubSeq(cur, 1, Len(cur) - 1) ELSE cur
              IN  [lines |-> <<line>> \o r.lines, rest |-> r.rest]
         ELSE SplitLines(s, i + 1, Append(cur, s[i]))

\* The JSON text of a frame, written out: "{", the tokens of its content, "}"
JsonBody == [ D_x |-> <<"dx">>, D_m1 |-> <<"dm1">>, D_m9 |-> <<"dm9">>, D_empty |-> <<>> ]

JsonText(frame) == <<"{">> \o JsonBody[frame] \o <<"}">>

\* JSON.parse(payload): the event, or none when it throws
JsonParse(text) ==
    IF \E f \in DataFrames : JsonText(f) = text
    THEN << CHOOSE f \in DataFrames : JsonText(f) = text >>
    ELSE <<>>

\* one line of processSseBuffer: the parsed event, or none
\* a frame line is either one token (a frame of DataFrames, the sentinel, a
\* malformed frame, a comment) or written out: "data:", then the payload
LineEvent(line) ==
    LET l == Trim(line)
    IN  IF Len(l) = 1 /\ l[1] \in DataFrames THEN <<l[1]>>
        ELSE IF l = <<>> \/ l[1] # "data:" THEN <<>>
        ELSE LET data == Trim(Tail(l))
             IN  IF data = <<>> \/ data = <<"[DONE]">> THEN <<>>
                 ELSE JsonParse(data)

RECURSIVE LineEvents_StoppingAtSkippedLine(_)
LineEvents_StoppingAtSkippedLine(lines) ==
    IF lines = <<>> \/ LineEvent(Head(lines)) = <<>> THEN <<>>
    ELSE LineEvent(Head(lines)) \o LineEvents_StoppingAtSkippedLine(Tail(lines))

RECURSIVE LineEvents(_)
\* the for loop of processSseBuffer: a skipped line does not end it
LineEvents(lines) ==
    IF lines = <<>> THEN <<>> ELSE LineEvent(Head(lines)) \o LineEvents(Tail(lines))

\* processSseBuffer: events are the frames handed to onEvent, rest the returned buffer
processSseBuffer(buf) ==
    LET sp == SplitLines(buf, 1, <<>>)
    IN  [events |-> LineEvents(sp.lines), rest |-> sp.rest]

\* extractDeltaTextFromChunk
extractDeltaTextFromChunk(event) == FrameDelta[event]

RECURSIVE FrameDeltas(_)
\* the non-empty delta texts of a sequence of upstream frames, in order
FrameDeltas(frames) ==
    IF frames = <<>> THEN <<>>
    ELSE LET delta == extractDeltaTextFromChunk(Head(frames))
         IN  (IF delta = <<>> THEN <<>> ELSE <<delta>>) \o FrameDeltas(Tail(frames))

RECURSIVE Relay(_, _, _)
\* the handler's onDelta over the frames of one processSseBuffer call, in order:
\* full is fullAnswer afterwards, writes the events written
Relay(frames, full, writes) ==
    IF frames = <<>> THEN [full |-> full, writes |-> writes]
    ELSE LET delta == extractDeltaTextFromChunk(Head(frames))
         IN  IF delta = <<>> THEN Relay(Tail(frames), full, writes)
             ELSE Relay(Tail(frames), full \o delta, Append(writes, DeltaEvent(delta, full \o delta)))

\* sendStreamEvent (server: res.write) / stream.write (edge: queued on the writer)
Write(evs) ==
    IF variant = "server"
    THEN events' = events \o evs /\ UNCHANGED pendingWrites
    ELSE pendingWrites' = pendingWrites \o evs /\ UNCHANGED events

ReqInit ==
    /\ raw = <<>> /\ out = <<>> /\ sphase = "off"
    /\ ctx \in ReqContexts
    /\ variant \in {"server", "edge"}
    /\ endpoint \in {"chat", "chat-stream"}
    /\ hasApiKey \in BOOLEAN
    /\ maxRetries \in MAX_RETRIES_MIN..MAX_RETRIES_MAX
    /\ hpc = "start" /\ cpc = "idle" /\ attempt = 0 /\ timerArmed = FALSE
    /\ receivedAnyChunk = FALSE /\ respStatus = 0 /\ buffer = <<>> /\ fullAnswer = <<>>
    /\ modelName = IF variant = "server" THEN "MODEL" ELSE ""
    /\ response = <<>> /\ pendingWrites = <<>> /\ events = <<>>
    /\ closed = FALSE /\ httpStatus = 0 /\ lastError = Failure("none") /\ clientConnected = TRUE
    /\ reads = 0 /\ backoffs = <<>> /\ inFlight = 0 /\ prevOutcome = Failure("none")
    /\ deltaAttempts = {} /\ upstreamDeltas = <<>>
    /\ GroundIdle
    /\ AuxIdle

callVars == <<cpc, attempt, timerArmed, receivedAnyChunk, respStatus, inFlight>>
relayVars == <<buffer, fullAnswer, modelName, reads, deltaAttempts, upstreamDeltas>>
wireVars == <<pendingWrites, events, closed, httpStatus>>
cfgVars == <<sanVars, ctx, groundVars, auxVars, variant, endpoint, hasApiKey, maxRetries>>

\* sendJson / json(): a complete JSON response with this status
SendJson(status) ==
    /\ httpStatus' = status
    /\ closed' = TRUE
    /\ hpc' = "finished"
    /\ UNCHANGED <<pendingWrites, events>>

\* The handler up to the upstream call: requireApiKey (server), the question
\* check, then the stream headers (chat-stream) and the entry of the call, which
\* in the edge functions begins with requireApiKey.
HandlerStart ==
    /\ hpc = "start"
    /\ UNCHANGED <<cfgVars, relayVars, response, clientConnected, backoffs, prevOutcome,
                   attempt, timerArmed, receivedAnyChunk, respStatus, inFlight>>
    /\ IF variant = "server" /\ ~hasApiKey
       THEN SendJson(ErrorStatus(Failure("missing key"))) /\ UNCHANGED <<cpc, lastError>>
       ELSE IF ctx.question = ""
       THEN SendJson(400) /\ UNCHANGED <<cpc, lastError>>
       ELSE /\ hpc' = "calling"
            /\ IF endpoint = "chat-stream"
               THEN httpStatus' = 200 /\ UNCHANGED <<pendingWrites, events, closed>>
               ELSE UNCHANGED wireVars
            /\ IF hasApiKey
               THEN cpc' = "loop" /\ UNCHANGED lastError
               ELSE cpc' = "raised" /\ lastError' = Failure("missing key")

\* the head of the retry loop: a new controller, the timer, the fetch
BeginAttempt ==
    /\ attempt' = attempt + 1
    /\ timerArmed' = TRUE
    /\ receivedAnyChunk' = FALSE
    /\ respStatus' = 0
    /\ inFlight' = inFlight + 1
    /\ cpc' = "fetch"

StartAttempt ==
    /\ cpc = "loop"
    /\ attempt < maxRetries
    /\ BeginAttempt
    /\ UNCHANGED <<cfgVars, relayVars, wireVars, hpc, response, lastError, clientConnected,
                   backoffs, prevOutcome>>

\* the catch block of the retry loop, and the throw after the loop
Catch(err) ==
    /\ timerArmed' = FALSE
    /\ lastError' = err
    /\ prevOutcome' = [kind |-> err.kind, status |-> err.status]
    /\ inFlight' = inFlight - 1
    /\ IF \/ endpoint = "chat" /\ ShouldRetryBatch(attempt, maxRetries)
          \/ endpoint = "chat-stream" /\ ShouldRetryStream(attempt, maxRetries, receivedAnyChunk)
       THEN cpc' = "sleep" /\ backoffs' = Append(backoffs, BackoffDelay(attempt))
       ELSE cpc' = "raised" /\ UNCHANGED backoffs

\* the upstream answers the fetch with a status line and headers
FetchResponds ==
    /\ cpc = "fetch"
    /\ \E status \in Statuses :
        /\ respStatus' = status
        /\ timerArmed' = FALSE
        /\ IF status # 200
           THEN cpc' = "text" /\ UNCHANGED modelName
           ELSE IF endpoint = "chat"
           THEN cpc' = "json" /\ UNCHANGED modelName
           ELSE cpc' = "read" /\ modelName' = "MODEL"
    /\ UNCHANGED <<cfgVars, wireVars, hpc, response, lastError, clientConnected, backoffs,
                   prevOutcome, attempt, receivedAnyChunk, inFlight, buffer, fullAnswer,
                   reads, deltaAttempts, upstreamDeltas>>

\* a streaming response that carries no body: throw new Error("empty stream body")
FetchRespondsNoBody ==
    /\ cpc = "fetch"
    /\ endpoint = "chat-stream"
    /\ respStatus' = 200
    /\ Catch(Failure("empty stream body"))
    /\ UNCHANGED <<cfgVars, relayVars, wireVars, hpc, response, clientConnected, attempt,
                   receivedAnyChunk>>

\* the fetch rejects: connection refused, reset, DNS
FetchFails ==
    /\ cpc = "fetch"
    /\ Catch(Failure("network"))
    /\ UNCHANGED <<cfgVars, relayVars, wireVars, hpc, response, clientConnected, attempt,
                   receivedAnyChunk, respStatus>>

\* the per-attempt timer fires: controller.abort("timeout") rejects the pending fetch
TimerFires ==
    /\ timerArmed
    /\ cpc = "fetch"
    /\ Catch(Failure("timeout"))
    /\ UNCHANGED <<cfgVars, relayVars, wireVars, hpc, response, clientConnected, attempt,
                   receivedAnyChunk, respStatus>>

\* await response.text() of a non-OK response resolves
ErrorBodyRead ==
    /\ cpc = "text"
    /\ IF ShouldRetryStatus(respStatus, attempt, maxRetries)
       THEN /\ cpc' = "sleep"
            /\ backoffs' = Append(backoffs, BackoffDelay(attempt))
            /\ prevOutcome' = HttpError(respStatus)
            /\ inFlight' = inFlight - 1
            /\ UNCHANGED <<lastError, timerArmed>>
       ELSE \E text \in ErrorTexts : Catch(UpstreamError(respStatus, text))
    /\ UNCHANGED <<cfgVars, relayVars, wireVars, hpc, response, clientConnected, attempt,
                   receivedAnyChunk, respStatus>>

\* await response.text() / response.json() rejects
BodyFails ==
    /\ cpc \in {"text", "json"}
    /\ Catch(Failure("body"))
    /\ UNCHANGED <<cfgVars, relayVars, wireVars, hpc, response, clientConnected, attempt,
                   receivedAnyChunk, respStatus>>

\* callBigModel: return await response.json()
JsonParsed ==
    /\ cpc = "json"
    /\ \E text \in BatchAnswers : response' = text
    /\ cpc' = "returned"
    /\ inFlight' = inFlight - 1
    /\ prevOutcome' = HttpError(respStatus)
    /\ UNCHANGED <<cfgVars, relayVars, wireVars, hpc, lastError, clientConnected, backoffs,
                   attempt, timerArmed, receivedAnyChunk, respStatus>>

\* callBigModelStream: reader.read() delivers a chunk; the complete lines of the
\* buffer are parsed and each delta goes through the handler's onDelta
ReadChunk ==
    /\ cpc = "read"
    /\ reads < MaxReads
    /\ \E chunk \in Chunks :
        LET p == processSseBuffer(buffer \o chunk)
            r == Relay(p.events, fullAnswer, <<>>)
        IN  /\ buffer' = p.rest
            /\ fullAnswer' = r.full
            /\ Write(r.writes)
            /\ deltaAttempts' = IF r.writes = <<>> THEN deltaAttempts ELSE deltaAttempts \cup {attempt}
            /\ upstreamDeltas' = upstreamDeltas \o FrameDeltas(p.events)
    /\ receivedAnyChunk' = TRUE
    /\ reads' = reads + 1
    /\ UNCHANGED <<cfgVars, hpc, response, lastError, clientConnected, backoffs, prevOutcome,
                   cpc, attempt, timerArmed, respStatus, inFlight, modelName, closed, httpStatus>>

\* reader.read() reports the end of the stream: the tail of the buffer is
\* flushed with a terminating newline, and the call returns
ReadDone ==
    /\ cpc = "read"
    /\ LET p == IF Trim(buffer) # <<>> THEN processSseBuffer(buffer \o <<"\n">>)
                ELSE [events |-> <<>>, rest |-> buffer]
           r == Relay(p.events, fullAnswer, <<>>)
       IN  /\ fullAnswer' = r.full
           /\ Write(r.writes)
           /\ deltaAttempts' = IF r.writes = <<>> THEN deltaAttempts ELSE deltaAttempts \cup {attempt}
           /\ upstreamDeltas' = upstreamDeltas \o FrameDeltas(p.events)
    /\ cpc' = "returned"
    /\ inFlight' = inFlight - 1
    /\ prevOutcome' = HttpError(respStatus)
    /\ UNCHANGED <<cfgVars, hpc, response, lastError, clientConnected, backoffs, buffer, reads,
                   attempt, timerArmed, receivedAnyChunk, respStatus, modelName, closed, httpStatus>>

\* reader.read() rejects: the connection broke in the middle of the stream
ReadFails ==
    /\ cpc = "read"
    /\ Catch(Failure("read"))
    /\ UNCHANGED <<cfgVars, relayVars, wireVars, hpc, response, clientConnected, attempt,
                   receivedAnyChunk, respStatus>>

\* sleep(attempt * 350) is over: the loop goes on with the next attempt
BackoffElapses ==
    /\ cpc = "sleep"
    /\ BeginAttempt
    /\ UNCHANGED <<cfgVars, relayVars, wireVars, hpc, response, lastError, clientConnected,
                   backoffs, prevOutcome>>

\* chat-stream: the call is over; the terminal event is written and, in the
\* server, the response ended (the edge function awaits its write first)
StreamFinish ==
    /\ hpc = "calling"
    /\ endpoint = "chat-stream"
    /\ cpc \in {"returned", "raised"}
    /\ Write(<< IF cpc = "returned" THEN DoneEvent(fullAnswer, ctx, modelName)
                ELSE ErrorEvent(lastError) >>)
    /\ IF variant = "server"
       THEN closed' = TRUE /\ hpc' = "finished"
       ELSE closed' = closed /\ hpc' = "flush"
    /\ UNCHANGED <<cfgVars, callVars, relayVars, response, lastError, clientConnected,
                   backoffs, prevOutcome, httpStatus>>

\* edge: the awaited write of the terminal event is done: finally { stream.close() }
CloseStream ==
    /\ hpc = "flush"
    /\ pendingWrites = <<>>
    /\ closed' = TRUE
    /\ hpc' = "finished"
    /\ UNCHANGED <<cfgVars, callVars, relayVars, response, lastError, clientConnected,
                   backoffs, prevOutcome, pendingWrites, events, httpStatus>>

\* edge: the readable side takes the next queued event
Drain ==
    /\ pendingWrites # <<>>
    /\ events' = Append(events, Head(pendingWrites))
    /\ pendingWrites' = Tail(pendingWrites)
    /\ UNCHANGED <<cfgVars, callVars, relayVars, hpc, response, lastError, clientConnected,
                   backoffs, prevOutcome, closed, httpStatus>>

\* chat: the call is over; the JSON response
ChatFinish ==
    /\ hpc = "calling"
    /\ endpoint = "chat"
    /\ cpc \in {"returned", "raised"}
    /\ SendJson(IF cpc = "raised" THEN ErrorStatus(lastError)
                ELSE IF sanitizeAnswerContent(response, ctx) = <<>> THEN 502
                ELSE 200)
    /\ UNCHANGED <<cfgVars, callVars, relayVars, response, lastError, clientConnected,
                   backoffs, prevOutcome>>

\* the caller goes away
ClientDisconnects ==
    /\ clientConnected
    /\ hpc \in {"start", "calling", "flush"}
    /\ clientConnected' = FALSE
    /\ UNCHANGED <<cfgVars, callVars, relayVars, wireVars, hpc, response, lastError,
                   backoffs, prevOutcome>>

\* steps of the program and of its timers
ProgramStep ==
    \/ HandlerStart
    \/ StartAttempt
    \/ TimerFires
    \/ BackoffElapses
    \/ StreamFinish
    \/ CloseStream
    \/ ChatFinish

\* steps of the upstream and of the caller
EnvironmentStep ==
    \/ FetchResponds
    \/ FetchRespondsNoBody
    \/ FetchFails
    \/ ErrorBodyRead
    \/ BodyFails
    \/ JsonParsed
    \/ ReadChunk
    \/ ReadDone
    \/ ReadFails
    \/ Drain
    \/ ClientDisconnects

Next == ProgramStep \/ EnvironmentStep

Spec == ReqInit /\ [][Next]_vars

\* the steps the upstream call takes by itself: entering the loop, the abort
\* timer going off, the end of a backoff sleep
CallStep == StartAttempt \/ TimerFires \/ BackoffElapses

\* the event loop runs a ready continuation and a due timer; nothing obliges the
\* upstream or the caller to act
LiveSpec == ReqInit /\ [][Next]_vars /\ WF_vars(CallStep)

----------------------------------------------------------------------------
(* Properties of one request *)

\* everything the handler has written, in order (edge: consumed, then queued)
Emitted == events \o pendingWrites

IsTerminal(e) == e.type \in {"done", "error"}

TerminalCount(s) == Cardinality({n \in 1..Len(s) : IsTerminal(s[n])})

StreamHeadersSent == endpoint = "chat-stream" /\ httpStatus = 200

RECURSIVE DeltaFields(_)
\* the delta fields of the delta events of s, in order
DeltaFields(s) ==
    IF s = <<>> THEN <<>>
    ELSE (IF Head(s).type = "delta" THEN <<Head(s).delta>> ELSE <<>>) \o DeltaFields(Tail(s))

RECURSIVE Concat(_)
Concat(texts) == IF texts = <<>> THEN <<>> ELSE Head(texts) \o Concat(Tail(texts))

IsPrefix(s, t) == Len(s) <= Len(t) /\ SubSeq(t, 1, Len(s)) = s

CallRunning == cpc \in {"loop", "fetch", "text", "json", "read", "sleep"}
CallEnded == cpc \in {"returned", "raised"}

C3_DeltasOrderedAndCumulative ==
    /\ DeltaFields(Emitted) = upstreamDeltas
    /\ IsPrefix(DeltaFields(events), upstreamDeltas)
    /\ \A k \in 1..Len(Emitted) :
          Emitted[k].type = "delta" =>
              Emitted[k].answer = Concat(DeltaFields(SubSeq(Emitted, 1, k)))

C3_Witness_EdgeQueuedDeltas ==
    /\ variant = "edge"
    /\ Len(events) >= 2 /\ pendingWrites # <<>>
    /\ events[1].type = "delta" /\ events[2].type = "delta"
    /\ events[1].delta # events[2].delta
    /\ pendingWrites[1].type = "delta"

\* C4: the answer of a done event is sanitizeAnswerContent of the concatenation
\* of the emitted deltas under the answer context of the request
C4_DoneIsSanitizedConcatenation ==
    \A n \in 1..Len(Emitted) :
        Emitted[n].type = "done" =>
            Emitted[n].answer = sanitizeAnswerContent(Concat(DeltaFields(Emitted)), ctx)

C4_Witness_DoneDiffersFromRaw ==
    /\ events # <<>>
    /\ events[Len(events)].type = "done"
    /\ Len(DeltaFields(events)) >= 2
    /\ events[Len(events)].answer # Concat(DeltaFields(events))
    /\ events[Len(events)].answer # <<>>

\* C5: once an attempt of callBigModelStream has read a chunk no further attempt
\* is started, a failure then ends the call, and the deltas delivered come from
\* at most one attempt
C5_NoRetryAfterFirstChunk ==
    /\ [][receivedAnyChunk => (attempt' = attempt /\ cpc' \in {"read", "returned", "raised"})]_vars
    /\ [](Cardinality(deltaAttempts) <= 1)

C5_Witness_FailureAfterChunk ==
    /\ receivedAnyChunk
    /\ lastError.kind = "read"
    /\ attempt < maxRetries
    /\ closed
    /\ events # <<>> /\ events[Len(events)].type = "error"

\* how an attempt may end for the next attempt to be allowed: a response with
\* status 5xx, 429 or 408, or a failure without a response
RetryAllowedAfter(outcome) ==
    IF outcome.kind = "http" THEN Retryable(outcome.status) ELSE outcome.kind # "none"

\* C6: another attempt is started only after a response with status 5xx, 429 or
\* 408 or after a network or timeout failure
C6_RetryOnlyAfterTransientFailure ==
    [][(attempt >= 1 /\ attempt' > attempt) => RetryAllowedAfter(prevOutcome)]_vars

\* C7: at most MAX_RETRIES attempts (MAX_RETRIES in 1..5), at most one in
\* flight, one backoff of attempt * 350 ms between attempt k and attempt k+1,
\* and none after the last attempt
C7_AttemptsBoundedSequentialBackoff ==
    /\ maxRetries \in 1..5
    /\ attempt <= maxRetries
    /\ inFlight \in {0, 1}
    /\ \A k \in 1..Len(backoffs) : backoffs[k] = k * 350
    /\ Len(backoffs) = (IF cpc = "sleep" THEN attempt ELSE IF attempt = 0 THEN 0 ELSE attempt - 1)
    /\ cpc = "sleep" => attempt < maxRetries
    /\ Len(backoffs) <= maxRetries - 1

C7_Witness_LastAttemptNoBackoff ==
    /\ attempt = maxRetries
    /\ maxRetries >= 3
    /\ cpc = "raised"
    /\ backoffs = <<350, 700>> \/ Len(backoffs) > 2

\* C8: every upstream call eventually returns or raises
C8_CallTerminates == CallRunning ~> CallEnded

\* C9: once the caller is gone no further attempt is started and no further
\* chunk is read
C9_DisconnectStopsCall ==
    [][(~clientConnected /\ attempt >= 1) => (attempt' = attempt /\ reads' = reads)]_vars

----------------------------------------------------------------------------
(* Grounding: search text, the artifact catalog, candidate ranking          *)
(*                                                                         *)
(* Search text is a sequence of one-character tokens:                      *)
(*   "wu" "liang" "ci" "che" "ma" "zhan" "pin" "na" "kuai"                  *)
(*                   CJK characters; na kuai is the lookup phrase and a     *)
(*                   stopword, zhan pin is a stopword                       *)
(*   "k" "K"         a Latin letter, lower and upper case                   *)
(*   "7"             a digit                                                *)
(*   ","             a punctuation character                                *)
(*   " "  "\n"       whitespace                                             *)
(* Texts over these characters hold no quotes, no markdown syntax and no    *)
(* other stopword or lookup phrase.                                         *)

TOKEN_CAP == 60
PHRASE_CAP == 20
ALIAS_CAP == 40
SUMMARY_CLIP == 220
TAG_CAP == 6
MIN_CANDIDATES == 3
LIMIT_ARTIFACT == 12
LIMIT_MUSEUM == 10
PREFERRED_BONUS == 120
HISTORY_MAX_ITEMS == 2
HISTORY_ITEM_MAX_CHARS == 120

\* [\u4e00-\u9fff]
IsHan(c) == c \in {"wu", "liang", "ci", "che", "ma", "zhan", "pin", "na", "kuai"}

IsDigit(c) == c = "7"

\* the characters normalizeSearchText blanks out
IsSearchPunct(c) == c = ","

ToLower(c) == IF c = "K" THEN "k" ELSE c

Min(a, b) == IF a <= b THEN a ELSE b
Max(a, b) == IF a >= b THEN a ELSE b

\* array.slice(0, n)
Take(s, n) == SubSeq(s, 1, Min(n, Len(s)))

\* String.prototype.includes
Includes(hay, needle) ==
    \E i \in 0..(Len(hay) - Len(needle)) : SubSeq(hay, i + 1, i + Len(needle)) = needle

\* list.some((entry) => entry.includes(needle))
AnyIncludes(list, needle) == \E n \in 1..Len(list) : Includes(list[n], needle)

RECURSIVE Unique(_, _)
\* the members of a Set filled in the order of items, in insertion order
Unique(items, acc) ==
    IF items = <<>> THEN acc
    ELSE Unique(Tail(items),
                IF \E n \in 1..Len(acc) : acc[n] = Head(items) THEN acc ELSE Append(acc, Head(items)))

RECURSIVE CollapseSpaces(_)
\* .replace(/\s+/g, " ")
CollapseSpaces(s) ==
    IF s = <<>> THEN <<>>
    ELSE IF IsWs(Head(s)) THEN <<" ">> \o CollapseSpaces(TrimLeft(Tail(s)))
    ELSE <<Head(s)>> \o CollapseSpaces(Tail(s))

normalizeSearchText_NoFinalTrim(text) ==
    LET t == safeString(text)
        blanked == [n \in 1..Len(t) |-> IF IsSearchPunct(t[n]) THEN " " ELSE ToLower(t[n])]
    IN  CollapseSpaces(blanked)

\* normalizeSearchText
normalizeSearchText(text) ==
    LET t == safeString(text)
        blanked == [n \in 1..Len(t) |-> IF IsSearchPunct(t[n]) THEN " " ELSE ToLower(t[n])]
    IN  Trim(CollapseSpaces(blanked))

LookupPhrase == <<"na", "kuai">>

RECURSIVE BlankLookupPhrases(_)
\* .replace(/(...|na kuai|...)/g, " ")
BlankLookupPhrases(s) ==
    IF s = <<>> THEN <<>>
    ELSE IF Len(s) >= 2 /\ SubSeq(s, 1, 2) = LookupPhrase
         THEN <<" ">> \o BlankLookupPhrases(SubSeq(s, 3, Len(s)))
         ELSE <<Head(s)>> \o BlankLookupPhrases(Tail(s))

\* sanitizeLookupQuestionText
sanitizeLookupQuestionText(normalizedText) ==
    Trim(CollapseSpaces(BlankLookupPhrases(safeString(normalizedText))))

RECURSIVE SplitOn(_, _, _)
\* String.prototype.split on single separator characters
SplitOn(s, seps, cur) ==
    IF s = <<>> THEN <<cur>>
    ELSE IF Head(s) \in seps THEN <<cur>> \o SplitOn(Tail(s), seps, <<>>)
    ELSE SplitOn(Tail(s), seps, Append(cur, Head(s)))

RECURSIVE HanRunEnd(_, _)
HanRunEnd(s, i) == IF i <= Len(s) /\ IsHan(s[i]) THEN HanRunEnd(s, i + 1) ELSE i

RECURSIVE HanRuns(_, _, _)
\* normalized.match(/[\u4e00-\u9fff]{minLen,}/g) || []
HanRuns(s, i, minLen) ==
    IF i > Len(s) THEN <<>>
    ELSE IF ~IsHan(s[i]) THEN HanRuns(s, i + 1, minLen)
    ELSE LET e == HanRunEnd(s, i)
         IN  (IF e - i >= minLen THEN <<SubSeq(s, i, e - 1)>> ELSE <<>>) \o HanRuns(s, e, minLen)

\* the stopwords of tokenizeSearchTerms that these characters can spell
SearchStopwords == { <<"na", "kuai">>, <<"zhan", "pin">> }

\* /^\d+$/
AllDigits(t) == t # <<>> /\ \A n \in 1..Len(t) : IsDigit(t[n])

IsWordTerm(t) == Len(t) >= 2 /\ t \notin SearchStopwords /\ ~AllDigits(t)

IsRunTerm(t) == Len(t) >= 2 /\ t \notin SearchStopwords

RECURSIVE RunParts(_, _, _)
\* the slices of a run of length 2..6, by length and then by index
RunParts(run, length, index) ==
    IF length > 6 THEN <<>>
    ELSE IF Len(run) < length \/ index > Len(run) - length THEN RunParts(run, length + 1, 0)
    ELSE <<SubSeq(run, index + 1, index + length)>> \o RunParts(run, length, index + 1)

\* tokenizeSearchTerms
tokenizeSearchTerms(text) ==
    LET normalized == sanitizeLookupQuestionText(normalizeSearchText(text))
        words == SelectSeq(SplitOn(normalized, {" "}, <<>>), IsWordTerm)
        runs == HanRuns(normalized, 1, 2)
        runTerms == [n \in 1..Len(runs) |-> SelectSeq(<<runs[n]>> \o RunParts(runs[n], 2, 0), IsRunTerm)]
    IN  Take(Unique(words \o Flatten(runTerms), <<>>), TOKEN_CAP)

IsLongTerm(t) == Len(t) >= 3

\* buildSearchPhrases
buildSearchPhrases(text, tokens) ==
    LET rawText == safeString(text)
        normalized == sanitizeLookupQuestionText(normalizeSearchText(rawText))
        whole == IF Len(normalized) >= 3 THEN <<normalized>> ELSE <<>>
        runs == HanRuns(normalized, 1, 3)
        runPhrases == [n \in 1..Len(runs) |->
                          <<runs[n]>> \o (IF Len(runs[n]) > 6 THEN <<SubSeq(runs[n], 1, 6)>> ELSE <<>>)]
    IN  Take(Unique(whole \o Flatten(runPhrases) \o SelectSeq(tokens, IsLongTerm), <<>>), PHRASE_CAP)

\* toPlainText: these characters spell no markdown syntax, what is left of it is
\* safeString, .replace(/\s+/g, " ") and .trim()
toPlainText(markdown) == Trim(CollapseSpaces(safeString(markdown)))

\* the separators of extractAliases
AliasSeparators == {",", " ", "\n"}

IsAliasPart(t) == Len(t) >= 2

NonEmpty(t) == t # <<>>

\* fields.map((item) => safeString(item))
TrimAll(texts) == [n \in 1..Len(texts) |-> safeString(texts[n])]

RECURSIVE JoinWith(_, _)
\* array.join(sep)
JoinWith(texts, sep) ==
    IF texts = <<>> THEN <<>>
    ELSE IF Len(texts) = 1 THEN Head(texts)
    ELSE Head(texts) \o sep \o JoinWith(Tail(texts), sep)

\* extractAliases: every entry, then its parts of two characters or more (none
\* of the alias stopwords of that length can be spelled), without repetition
extractAliases(fields) ==
    LET entries == SelectSeq(TrimAll(fields), NonEmpty)
        withParts == [n \in 1..Len(entries) |->
                         <<entries[n]>> \o SelectSeq(SplitOn(entries[n], AliasSeparators, <<>>), IsAliasPart)]
    IN  Take(Unique(Flatten(withParts), <<>>), ALIAS_CAP)

\* the record loadArtifactCatalog builds of one artifact of the dataset
CatalogItem(item) ==
    LET tags == SelectSeq(TrimAll(item.tags), NonEmpty)
        infoText == toPlainText(safeString(item.infoText))
        linkedText == JoinWith(SelectSeq([n \in 1..Len(item.linkedPdf) |->
                                             toPlainText(safeString(item.linkedPdf[n]))], NonEmpty), <<" ">>)
        summary == clipText(Trim(JoinWith(SelectSeq(<<infoText, linkedText>>, NonEmpty), <<" ">>)), SUMMARY_CLIP)
        aliases == extractAliases(<<item.name, item.pdfTopic>> \o tags)
    IN  [ id |-> safeString(item.id),
          name |-> safeString(item.name),
          series |-> safeString(item.series),
          tags |-> tags,
          pdfTopic |-> safeString(item.pdfTopic),
          summary |-> summary,
          nameNorm |-> normalizeSearchText(item.name),
          seriesNorm |-> normalizeSearchText(item.series),
          topicNorm |-> normalizeSearchText(item.pdfTopic),
          tagsNorm |-> [n \in 1..Len(tags) |-> normalizeSearchText(tags[n])],
          aliasNorm |-> SelectSeq([n \in 1..Len(aliases) |-> normalizeSearchText(aliases[n])], NonEmpty),
          summaryNorm |-> normalizeSearchText(summary),
          richness |-> (IF infoText # <<>> THEN 4 ELSE 0) + Len(item.linkedPdf) * 3 + Len(tags) ]

\* if (!id || !name) return null
IsLoadable(item) == safeString(item.id) # <<>> /\ safeString(item.name) # <<>>

RECURSIVE loadArtifactCatalog(_)
\* loadArtifactCatalog over the artifacts of the dataset
loadArtifactCatalog(list) ==
    IF list = <<>> THEN <<>>
    ELSE (IF IsLoadable(Head(list)) THEN <<CatalogItem(Head(list))>> ELSE <<>>)
         \o loadArtifactCatalog(Tail(list))

Hits(score, structured, summary) == [score |-> score, structured |-> structured, summary |-> summary]

AddHits(a, b) == Hits(a.score + b.score, a.structured + b.structured, a.summary + b.summary)

If(cond, hits) == IF cond THEN hits ELSE Hits(0, 0, 0)

\* the body of the loop over phrases
PhraseHits(item, phrase) ==
    IF Len(phrase) < 3 THEN Hits(0, 0, 0)
    ELSE AddHits(If(Includes(item.nameNorm, phrase), Hits(240, 2, 0)),
         AddHits(If(Includes(item.topicNorm, phrase), Hits(230, 2, 0)),
         AddHits(If(AnyIncludes(item.tagsNorm, phrase), Hits(210, 2, 0)),
         AddHits(If(AnyIncludes(item.aliasNorm, phrase), Hits(190, 1, 0)),
                 If(Includes(item.summaryNorm, phrase), Hits(32, 0, 1))))))

\* the body of the loop over tokens
TokenHits(item, token) ==
    AddHits(If(Includes(item.nameNorm, token), Hits(38, 1, 0)),
    AddHits(If(Includes(item.seriesNorm, token), Hits(20, 1, 0)),
    AddHits(If(Includes(item.topicNorm, token), Hits(34, 1, 0)),
    AddHits(If(AnyIncludes(item.tagsNorm, token), Hits(30, 1, 0)),
    AddHits(If(AnyIncludes(item.aliasNorm, token), Hits(28, 1, 0)),
            If(Includes(item.summaryNorm, token), Hits(Min(8, Len(token) * 2), 0, 1)))))))

RECURSIVE SumPhraseHits(_, _)
SumPhraseHits(item, phrases) ==
    IF phrases = <<>> THEN Hits(0, 0, 0)
    ELSE AddHits(PhraseHits(item, Head(phrases)), SumPhraseHits(item, Tail(phrases)))

RECURSIVE SumTokenHits(_, _)
SumTokenHits(item, tokens) ==
    IF tokens = <<>> THEN Hits(0, 0, 0)
    ELSE AddHits(TokenHits(item, Head(tokens)), SumTokenHits(item, Tail(tokens)))

\* Math.round(richness * 0.6)
RoundedRichness(richness) == (richness * 6 + 5) \div 10

ScoreOf_PreferredSubtracted(item, preferredId, normalizedQuery, tokens, phrases) ==
    LET base == Hits(RoundedRichness(item.richness), 0, 0)
        preferred == If(preferredId # <<>> /\ item.id = preferredId, Hits(0 - PREFERRED_BONUS, 1, 0))
        whole == If(/\ normalizedQuery # <<>>
                    /\ Includes(item.summaryNorm, normalizedQuery)
                    /\ ~Includes(item.nameNorm, normalizedQuery), Hits(8, 0, 1))
        h == AddHits(base, AddHits(preferred,
             AddHits(SumPhraseHits(item, phrases), AddHits(SumTokenHits(item, tokens), whole))))
    IN  h.score
        - (IF h.structured = 0 /\ h.summary > 0 THEN 40 ELSE 0)
        + (IF h.structured >= 2 THEN 24 ELSE 0)
        + (IF h.structured >= 4 THEN 18 ELSE 0)

\* the score pickArtifactCandidates gives one catalog item
ScoreOf(item, preferredId, normalizedQuery, tokens, phrases) ==
    LET base == Hits(RoundedRichness(item.richness), 0, 0)
        preferred == If(preferredId # <<>> /\ item.id = preferredId, Hits(PREFERRED_BONUS, 1, 0))
        whole == If(/\ normalizedQuery # <<>>
                    /\ Includes(item.summaryNorm, normalizedQuery)
                    /\ ~Includes(item.nameNorm, normalizedQuery), Hits(8, 0, 1))
        h == AddHits(base, AddHits(preferred,
             AddHits(SumPhraseHits(item, phrases), AddHits(SumTokenHits(item, tokens), whole))))
    IN  h.score
        - (IF h.structured = 0 /\ h.summary > 0 THEN 40 ELSE 0)
        + (IF h.structured >= 2 THEN 24 ELSE 0)
        + (IF h.structured >= 4 THEN 18 ELSE 0)

RECURSIVE InsertByScore(_, _)
\* x goes behind every entry whose score is not lower
InsertByScore(sorted, x) ==
    IF sorted = <<>> THEN <<x>>
    ELSE IF Head(sorted).score >= x.score THEN <<Head(sorted)>> \o InsertByScore(Tail(sorted), x)
    ELSE <<x>> \o sorted

RECURSIVE SortByScore(_, _)
\* .sort((a, b) => b.score - a.score): descending, stable
SortByScore(entries, acc) ==
    IF entries = <<>> THEN acc
    ELSE SortByScore(Tail(entries), InsertByScore(acc, Head(entries)))

\* pickArtifactCandidates over the catalog cat
pickArtifactCandidates(cat, queryText, preferredId, limit) ==
    IF cat = <<>> THEN <<>>
    ELSE LET normalizedQuery == normalizeSearchText(queryText)
             tokens == tokenizeSearchTerms(queryText)
             phrases == buildSearchPhrases(queryText, tokens)
             scored == [n \in 1..Len(cat) |->
                           [item |-> cat[n],
                            score |-> ScoreOf(cat[n], preferredId, normalizedQuery, tokens, phrases)]]
             top == Take(SortByScore(scored, <<>>), Max(MIN_CANDIDATES, limit))
         IN  [n \in 1..Len(top) |->
                 [ id |-> top[n].item.id,
                   name |-> top[n].item.name,
                   series |-> top[n].item.series,
                   tags |-> Take(top[n].item.tags, TAG_CAP),
                   pdfTopic |-> top[n].item.pdfTopic,
                   summary |-> top[n].item.summary,
                   rankScore |-> top[n].score ]]

\* history.slice(-HISTORY_MAX_ITEMS)
LastItems(s, n) == SubSeq(s, Max(1, Len(s) - n + 1), Len(s))

HasContent(item) == item.content # <<>>

\* normalizeHistory without .slice(-HISTORY_MAX_ITEMS)
normalizeHistory_Unsliced(history) ==
    SelectSeq([n \in 1..Len(history) |->
                  [ role |-> IF history[n].role = "assistant" THEN "assistant" ELSE "user",
                    content |-> clipText(safeString(history[n].content), HISTORY_ITEM_MAX_CHARS) ]],
              HasContent)

\* normalizeHistory
normalizeHistory(history) ==
    LET recent == LastItems(history, HISTORY_MAX_ITEMS)
    IN  SelectSeq([n \in 1..Len(recent) |->
                      [ role |-> IF recent[n].role = "assistant" THEN "assistant" ELSE "user",
                        content |-> clipText(safeString(recent[n].content), HISTORY_ITEM_MAX_CHARS) ]],
                  HasContent)

PrimaryArtifactId_CallerFirst(candidates, artifactId) ==
    IF artifactId # <<>> THEN artifactId
    ELSE IF candidates # <<>> THEN candidates[1].id ELSE <<>>

\* primaryArtifact?.id || artifactId || ""
PrimaryArtifactId(candidates, artifactId) ==
    IF candidates # <<>> /\ candidates[1].id # <<>> THEN candidates[1].id ELSE artifactId

REF_TAG_CAP == 4

buildArtifactReferenceSnippet_FirstOnly(candidates) ==
    IF candidates = <<>> THEN NoRefs
    ELSE [placeholder |-> FALSE,
          lines |-> << [index |-> 1, id |-> candidates[1].id, name |-> candidates[1].name,
                        series |-> candidates[1].series,
                        tags |-> Take(candidates[1].tags, REF_TAG_CAP),
                        summary |-> candidates[1].summary] >>]

\* buildArtifactReferenceSnippet: one numbered line per candidate, "id | name | series | tags | summary"
buildArtifactReferenceSnippet(candidates) ==
    IF candidates = <<>> THEN NoRefs
    ELSE [placeholder |-> FALSE,
          lines |-> [n \in 1..Len(candidates) |->
                        [index |-> n, id |-> candidates[n].id, name |-> candidates[n].name,
                         series |-> candidates[n].series,
                         tags |-> Take(candidates[n].tags, REF_TAG_CAP),
                         summary |-> candidates[n].summary]]]

\* the limit resolveArtifactGrounding hands to pickArtifactCandidates
LimitOf(input) == IF safeString(input.scope) = <<"artifact">> THEN LIMIT_ARTIFACT ELSE LIMIT_MUSEUM

\* const query = `${historyText}\n${question}\n${artifactName}`
QueryOf(input) ==
    LET artifactName == safeString(input.artifactName)
        question == safeString(input.question)
        history == normalizeHistory(input.history)
        historyText == JoinWith([n \in 1..Len(history) |-> history[n].content], <<"\n">>)
    IN  historyText \o <<"\n">> \o question \o <<"\n">> \o artifactName

\* resolveArtifactGrounding over the catalog cat
resolveArtifactGrounding(cat, input) ==
    LET scope == IF safeString(input.scope) = <<"artifact">> THEN "artifact" ELSE "museum"
        artifactId == safeString(input.artifactId)
        query == QueryOf(input)
        candidates == pickArtifactCandidates(cat, query, artifactId,
                                             IF scope = "artifact" THEN LIMIT_ARTIFACT ELSE LIMIT_MUSEUM)
    IN  [ candidates |-> candidates,
          candidateRefs |-> buildArtifactReferenceSnippet(candidates),
          allowedArtifactIds |-> {candidates[n].id : n \in 1..Len(candidates)},
          primaryArtifactId |-> PrimaryArtifactId(candidates, artifactId),
          primaryArtifactScore |-> IF candidates # <<>> THEN candidates[1].rankScore ELSE 0 ]

----------------------------------------------------------------------------
(* The catalog is loaded once, then grounding requests are served *)

MaxArtifacts == 2

Artifact(id, name, series, tags, pdfTopic, infoText, linkedPdf) ==
    [id |-> id, name |-> name, series |-> series, tags |-> tags, pdfTopic |-> pdfTopic,
     infoText |-> infoText, linkedPdf |-> linkedPdf]

\* artifacts a dataset can hold; two share an id, one has a blank id, one a blank name
DatasetArtifacts ==
    { Artifact(Id1, <<"wu", "liang", "ci">>, <<"wu">>, << <<"che", "ma">> >>, <<>>,
               <<"che", "ma", ",", "wu">>, <<>>),
      Artifact(<<" ">> \o Id2, <<"che", "ma">>, <<>>, <<>>, <<"K", "7">>,
               <<>>, << <<"wu", "liang", "ci">> >>),
      Artifact(Id1, <<"ma", " ", "k">>, <<"che", "ma">>, << <<" ">> >>, <<>>, <<>>, <<>>),
      Artifact(<<" ">>, <<"ci">>, <<>>, <<>>, <<>>, <<>>, <<>>),
      Artifact(Id9, <<>>, <<>>, <<>>, <<>>, <<>>, <<>>) }

Datasets == UNION { [1..n -> DatasetArtifacts] : n \in 0..MaxArtifacts }

GroundingInputs ==
    [ scope : { <<>>, <<"artifact">> },
      artifactId : { <<>>, Id1 \o <<" ">>, Id2, Id9 },
      artifactName : { <<>>, <<"che", "ma">> },
      question : { <<>>, <<"wu", "liang", "ci", "na", "kuai">>, <<"K", "7", ",", "ma">> },
      history : { <<>>, << [role |-> "system", content |-> <<"che", "ma">>] >> } ]

GroundInit ==
    /\ raw = <<>> /\ out = <<>> /\ sphase = "off"
    /\ ctx = [allowedArtifactIds |-> {}, question |-> "", primaryArtifactId |-> <<>>, primaryArtifactScore |-> 0]
    /\ ReqIdle
    /\ catalog = <<>> /\ gInput = NoInput /\ grounding = NoGrounding
    /\ gphase = "boot"
    /\ payload = NoPayload /\ groundingCalls = 0
    /\ webSearchEnabled \in BOOLEAN
    /\ AuxIdle

\* const ARTIFACT_CATALOG = loadArtifactCatalog()
LoadCatalog ==
    /\ gphase = "boot"
    /\ \E dataset \in Datasets : catalog' = loadArtifactCatalog(dataset)
    /\ gphase' = "serve"
    /\ UNCHANGED <<sanVars, ctx, reqVars, auxVars, gInput, grounding, payload, groundingCalls, webSearchEnabled>>

\* a handler calls resolveArtifactGrounding(body)
Resolve ==
    /\ gphase = "serve"
    /\ \E input \in GroundingInputs :
        /\ gInput' = input
        /\ grounding' = resolveArtifactGrounding(catalog, input)
    /\ gphase' = "resolved"
    /\ groundingCalls' = groundingCalls + 1
    /\ UNCHANGED <<sanVars, ctx, reqVars, auxVars, catalog, payload, webSearchEnabled>>

\* the text of a question, by the intent keyword it carries
QuestionKind(text) ==
    IF text = <<>> THEN ""
    ELSE IF Includes(text, <<"na", "kuai">>) THEN "which" ELSE "intro"

WEB_SEARCH_CONFIDENCE == 120

\* the lookup-intent pattern of shouldUseWebSearch; the which-piece words are
\* one of its alternatives
HasLookupIntent(q) == Includes(q, <<"na", "kuai">>)

shouldUseWebSearch_IgnoringConfidence(question, g) ==
    LET q == safeString(question)
    IN  IF q = <<>> THEN TRUE ELSE ~HasLookupIntent(q)

\* shouldUseWebSearch
shouldUseWebSearch(question, g) ==
    LET q == safeString(question)
    IN  IF q = <<>> THEN TRUE
        ELSE IF ~HasLookupIntent(q) THEN TRUE
        ELSE g.primaryArtifactScore < WEB_SEARCH_CONFIDENCE

\* buildSystemPrompt(scope, candidateRefs): the text of the prompt is one
\* character here, the references it carries are payload.candidateRefs
buildSystemPrompt(scope) == <<"PROMPT">>

\* userQuestion: in the artifact scope buildArtifactUserQuestion (the data
\* block, the instruction line, then the question behind its label), else the
\* question followed by the candidate index
buildUserQuestion(scope, question) ==
    IF scope = "artifact"
    THEN <<"DATA", "\n", "\n", "ASK", "\n", "\n", "Q">> \o question
    ELSE question \o <<"\n", "\n", "INDEX">>

\* const messages = [{role: "system", ...}, ...history, {role: "user", ...}]
buildMessages(scope, question, history) ==
    << [role |-> "system", content |-> buildSystemPrompt(scope)] >>
    \o history
    \o << [role |-> "user", content |-> buildUserQuestion(scope, question)] >>

\* buildChatPayload: the system prompt carries grounding.candidateRefs (or the
\* placeholder); tools is whether payload.tools (the web_search block) is set
buildChatPayload(input, g) ==
    LET scope == IF safeString(input.scope) = <<"artifact">> THEN "artifact" ELSE "museum"
        question == safeString(input.question)
    IN  [ built |-> TRUE,
          messages |-> buildMessages(scope, question, normalizeHistory(input.history)),
          scope |-> scope,
          candidateRefs |-> g.candidateRefs,
          question |-> question,
          stream |-> FALSE,
          tools |-> scope = "museum" /\ webSearchEnabled /\ shouldUseWebSearch(question, g) ]

\* answers of the model to a grounded request
GroundedAnswers ==
    { <<"x">>,
      <<"x", "[", "CARD", ":", "A", "1", "]">>,
      <<"[", "CARD", ":", "A", "2", "|", "x", "]", "[", "CARD", ":", "A", "9", "]">> }

\* const payload = buildChatPayload(body, grounding), for a body with a question
BuildPayload ==
    /\ gphase = "resolved"
    /\ safeString(gInput.question) # <<>>
    /\ payload' = buildChatPayload(gInput, grounding)
    /\ gphase' = "payload"
    /\ UNCHANGED <<sanVars, ctx, reqVars, auxVars, catalog, gInput, grounding, groundingCalls, webSearchEnabled>>

\* the model answered: sanitizeAnswerContent(answer, {allowedArtifactIds: grounding.allowedArtifactIds, ...})
SanitizeGrounded ==
    /\ gphase = "payload"
    /\ \E answer \in GroundedAnswers :
        LET context == [ allowedArtifactIds |-> grounding.allowedArtifactIds,
                         question |-> QuestionKind(safeString(gInput.question)),
                         primaryArtifactId |-> grounding.primaryArtifactId,
                         primaryArtifactScore |-> grounding.primaryArtifactScore ]
        IN  /\ raw' = answer
            /\ ctx' = context
            /\ out' = sanitizeAnswerContent(answer, context)
    /\ gphase' = "answered"
    /\ UNCHANGED <<sphase, reqVars, auxVars, catalog, gInput, grounding, payload, groundingCalls, webSearchEnabled>>

GroundNext == LoadCatalog \/ Resolve \/ BuildPayload \/ SanitizeGrounded

SpecGrounding == GroundInit /\ [][GroundNext]_vars

\* C10: allowedArtifactIds is the set of the ids of candidates, primaryArtifactId
\* is the id of candidates[0] when there is one and else the caller's artifactId
\* (or the empty string), and an empty catalog gives no candidates and an empty
\* allowedArtifactIds
C10_GroundingContextShape ==
    gphase = "resolved" =>
        /\ grounding.allowedArtifactIds =
              {grounding.candidates[n].id : n \in 1..Len(grounding.candidates)}
        /\ grounding.candidates # <<>> =>
              grounding.primaryArtifactId = grounding.candidates[1].id
        /\ grounding.candidates = <<>> =>
              grounding.primaryArtifactId = safeString(gInput.artifactId)
        /\ catalog = <<>> =>
              grounding.candidates = <<>> /\ grounding.allowedArtifactIds = {}

C10_Witness_PrimaryIsNotCallerId ==
    /\ gphase = "resolved"
    /\ Len(grounding.candidates) = 2
    /\ safeString(gInput.artifactId) = Id9
    /\ grounding.primaryArtifactId = Id2
    /\ grounding.allowedArtifactIds = {Id1, Id2}

\* ids listed in a reference list
ListedIds(refs) == {refs.lines[n].id : n \in 1..Len(refs.lines)}

\* C11: in a chat request the grounding is computed once, before the payload is
\* built, and the allow-list that validates the markers of the answer is the set
\* of the ids listed in the reference list of the request's system prompt
C11_AllowListIsPromptReferenceList ==
    gphase \in {"payload", "answered"} =>
        /\ groundingCalls = 1
        /\ payload.built
        /\ ListedIds(payload.candidateRefs) = grounding.allowedArtifactIds
        /\ payload.candidateRefs.placeholder <=> grounding.allowedArtifactIds = {}
        /\ gphase = "answered" =>
              /\ ctx.allowedArtifactIds = ListedIds(payload.candidateRefs)
              /\ \A n \in 1..Len(MarkerIds(out, 1)) :
                     MarkerIds(out, 1)[n] \in ListedIds(payload.candidateRefs)

C11_Witness_MarkerKeptFromTwoListed ==
    /\ gphase = "answered"
    /\ ListedIds(payload.candidateRefs) = {Id1, Id2}
    /\ MarkerIds(raw, 1) = <<Id2, Id9>>
    /\ MarkerIds(out, 1) = <<Id2>>

\* the catalog record at position i is the record candidate c was built from
IsRecordOf(c, i) ==
    /\ catalog[i].id = c.id /\ catalog[i].name = c.name /\ catalog[i].series = c.series
    /\ catalog[i].pdfTopic = c.pdfTopic /\ catalog[i].summary = c.summary

\* C12: pickArtifactCandidates returns at most max(3, limit) candidates, in
\* non-increasing rankScore order with equal scores kept in catalog order, and no
\* two returned candidates have the same id, for every catalog the loader produces
C12_CandidatesCappedSortedDistinct ==
    gphase = "resolved" =>
        LET c == grounding.candidates
        IN  /\ Len(c) <= Max(MIN_CANDIDATES, LimitOf(gInput))
            /\ \A m, n \in 1..Len(c) : m < n =>
                   /\ c[m].rankScore >= c[n].rankScore
                   /\ c[m].rankScore = c[n].rankScore =>
                          \E i, j \in 1..Len(catalog) : i < j /\ IsRecordOf(c[m], i) /\ IsRecordOf(c[n], j)
                   /\ c[m].id # c[n].id

\* the score of catalog record n for the query of the request, given preferredId
RecordScore(n, preferredId) ==
    LET query == QueryOf(gInput)
        tokens == tokenizeSearchTerms(query)
    IN  ScoreOf(catalog[n], preferredId, normalizeSearchText(query), tokens, buildSearchPhrases(query, tokens))

\* C13: the score of a catalog record with preferredId equal to its id is never
\* below its score with no preferredId, after the summary-only penalty and the
\* bonuses at two and at four structured hits
C13_PreferredNeverLowersScore ==
    gphase = "resolved" =>
        \A n \in 1..Len(catalog) :
            RecordScore(n, catalog[n].id) >= RecordScore(n, <<>>)

C13_Witness_PenaltyLifted ==
    /\ gphase = "resolved"
    /\ \E n \in 1..Len(catalog) :
          /\ catalog[n].id = safeString(gInput.artifactId)
          /\ RecordScore(n, catalog[n].id) - RecordScore(n, <<>>) = PREFERRED_BONUS + 40
          /\ grounding.candidates[1].id = catalog[n].id

----------------------------------------------------------------------------
(* POST /api/ai/wish: pickWishByModel, with pickWishByFallback behind it.     *)
(* Wish texts are sequences of characters named in pinyin.                    *)

MaxWishCandidates == 2

\* characters the fallback strips from a field: brackets, list and full stops, whitespace
WishPunct == {"(", ")", ",", ".", " ", "\n"}

RECURSIVE Strip(_, _)
\* text.replace(/[...]/g, "") for the characters of drop
Strip(text, drop) ==
    IF text = <<>> THEN <<>>
    ELSE (IF Head(text) \in drop THEN <<>> ELSE <<Head(text)>>) \o Strip(Tail(text), drop)

RECURSIVE SumSeq(_)
SumSeq(numbers) == IF numbers = <<>> THEN 0 ELSE Head(numbers) + SumSeq(Tail(numbers))

\* the fields the fallback compares with the wish
WishFields(item) == SelectSeq(TrimAll(<<item.name, item.series, item.pdfTopic>> \o item.tags), NonEmpty)

\* the score of one candidate: the lengths of its fields that the wish contains whole
WishScore(normalizedWish, item) ==
    LET fields == WishFields(item)
    IN  SumSeq([n \in 1..Len(fields) |->
                   LET token == Strip(fields[n], WishPunct)
                   IN  IF Len(token) < 2 THEN 0
                       ELSE IF Includes(normalizedWish, token) THEN Len(token) ELSE 0])

\* pickWishByFallback; random is the index Math.floor(Math.random() * candidates.length) + 1
pickWishByFallback(wish, candidates, random) ==
    LET normalizedWish == Strip(safeString(wish), {" ", "\n"})
        scored == SortByScore([n \in 1..Len(candidates) |->
                                  [id |-> safeString(candidates[n].id),
                                   score |-> WishScore(normalizedWish, candidates[n])]], <<>>)
    IN  IF scored # <<>> /\ scored[1].score > 0
        THEN [id |-> scored[1].id, via |-> "keyword"]
        ELSE [id |-> safeString(candidates[random].id), via |-> "random"]

\* pickWishByModel after callBigModel returned: the id the model named, if it is a candidate's
ModelPickIsValid(pickedId, candidates) ==
    /\ pickedId # <<>>
    /\ \E n \in 1..Len(candidates) : safeString(candidates[n].id) = pickedId

WishCandidate(id, name, series, tags, pdfTopic) ==
    [id |-> id, name |-> name, series |-> series, tags |-> tags, pdfTopic |-> pdfTopic]

CandA == WishCandidate(<<"a">>, <<"che", "ma", "chu", "xing", "tu">>, <<>>, <<>>, <<>>)
CandB == WishCandidate(<<"b">>, <<"kong", "men", "di", "zi">>, <<>>, <<>>, <<>>)
CandC == WishCandidate(<<"c">>, <<"kong", "zi">>, <<"wu">>, << <<"che", " ", "ma">> >>, <<>>)
CandD == WishCandidate(<<"d">>, <<" ">>, <<>>, <<>>, <<"che", "ma">>)

WishCandidatePool == {CandA, CandB, CandC, CandD}

ExampleWish == <<"xiang", "kan", "che", "ma">>

WishTexts == { <<>>, <<" ">>, ExampleWish, <<"kan", " ", "x">> }

\* request bodies: unreadable ones, and objects with a wish and a candidates list
WishBodies ==
    { [body |-> b, wish |-> <<>>, candidates |-> <<>>] : b \in {"invalid json", "too large"} }
    \cup { [body |-> "ok", wish |-> w, candidates |-> c] :
              w \in WishTexts, c \in UNION { [1..n -> WishCandidatePool] : n \in 0..MaxWishCandidates } }

\* ids the model may name in its JSON answer (none, candidates' ids, an id of no candidate)
ModelPicks == { <<>>, <<"a">>, <<"b">>, <<"c">>, <<"z">> }

IsNamed(item) == safeString(item.id) # <<>> /\ safeString(item.name) # <<>>

\* normalizeCandidates of the edge function: trimmed fields, records without id or name dropped
normalizeCandidates(candidates) ==
    SelectSeq([n \in 1..Len(candidates) |->
                  WishCandidate(safeString(candidates[n].id), safeString(candidates[n].name),
                                safeString(candidates[n].series),
                                SelectSeq(TrimAll(candidates[n].tags), NonEmpty),
                                safeString(candidates[n].pdfTopic))], IsNamed)

\* the candidates the handler works with
HandlerCandidates ==
    IF variant = "edge" THEN normalizeCandidates(wishReq.candidates) ELSE wishReq.candidates

SanIdle ==
    /\ raw = <<>> /\ out = <<>> /\ sphase = "off"
    /\ ctx = [allowedArtifactIds |-> {}, question |-> "", primaryArtifactId |-> <<>>, primaryArtifactScore |-> 0]

WishInit ==
    /\ SanIdle
    /\ variant \in {"server", "edge"}
    /\ hasApiKey \in BOOLEAN
    /\ ReqQuiet
    /\ GroundIdle
    /\ wishReq \in WishBodies
    /\ wpc = "start"
    /\ wishResp = NoWishResp
    /\ EnrichIdle
    /\ NormIdle
    /\ ExtraIdle

WishError(status) == [status |-> status, id |-> <<>>, via |-> "error"]

WishPicked(picked) == [status |-> 200, id |-> picked.id, via |-> picked.via]

\* The handler up to the call of pickWishByModel. The server calls requireApiKey
\* before it reads the body, and its catch block sees body = null when either throws.
WishStart ==
    /\ wpc = "start"
    /\ UNCHANGED <<sanVars, ctx, reqVars, groundVars, extraVars, enrichVars, normVars, wishReq>>
    /\ IF variant = "server" /\ ~hasApiKey
       THEN wishResp' = WishError(ErrorStatus(Failure("missing key"))) /\ wpc' = "done"
       ELSE IF wishReq.body # "ok"
       THEN wishResp' = WishError(ErrorStatus(Failure(wishReq.body))) /\ wpc' = "done"
       ELSE IF safeString(wishReq.wish) = <<>> \/ HandlerCandidates = <<>>
       THEN wishResp' = WishError(400) /\ wpc' = "done"
       ELSE wpc' = "model" /\ UNCHANGED wishResp

\* pickWishByModel returns the id the model named
WishModelPicks ==
    /\ wpc = "model"
    /\ hasApiKey
    /\ \E pickedId \in ModelPicks :
          /\ ModelPickIsValid(pickedId, HandlerCandidates)
          /\ wishResp' = WishPicked([id |-> pickedId, via |-> "model"])
    /\ wpc' = "done"
    /\ UNCHANGED <<sanVars, ctx, reqVars, groundVars, extraVars, enrichVars, normVars, wishReq>>

\* pickWishByModel throws (no key, the upstream call failed on all attempts, the
\* answer is no JSON object or names no candidate): the catch block answers with
\* pickWishByFallback
WishModelFails ==
    /\ wpc = "model"
    /\ \E random \in 1..Len(HandlerCandidates) :
          wishResp' = WishPicked(pickWishByFallback(safeString(wishReq.wish), HandlerCandidates, random))
    /\ wpc' = "done"
    /\ UNCHANGED <<sanVars, ctx, reqVars, groundVars, extraVars, enrichVars, normVars, wishReq>>

WishNext == WishStart \/ WishModelPicks \/ WishModelFails

SpecWish == WishInit /\ [][WishNext]_vars

\* ids of the candidates the request supplied
SuppliedIds == {safeString(wishReq.candidates[n].id) : n \in 1..Len(wishReq.candidates)}

\* C14: a wish request whose body has a non-empty wish and a non-empty candidates
\* list is answered 200 with the id of a supplied candidate, whatever fails
\* afterwards (missing key, upstream failure, malformed or foreign model answer)
C14_WishAlwaysAnswersWithCandidate ==
    (/\ wpc = "done"
     /\ wishReq.body = "ok"
     /\ safeString(wishReq.wish) # <<>>
     /\ wishReq.candidates # <<>>) =>
        wishResp.status = 200 /\ wishResp.id \in SuppliedIds

\* C15: with the model path failing, the fallback for the wish "xiang kan che ma"
\* and the candidates a ("che ma chu xing tu") and b ("kong men di zi") answers a
C15_FallbackPrefersSharedKeyword ==
    (/\ wpc = "done"
     /\ wishResp.via \in {"keyword", "random"}
     /\ wishReq.wish = ExampleWish
     /\ wishReq.candidates = <<CandA, CandB>>) =>
        wishResp.id = <<"a">>

----------------------------------------------------------------------------
(* POST /api/ai/enrich: recommendations and citations for an answer          *)

MAX_RECOMMENDATIONS == 3
MAX_CITATIONS == 4
FALLBACK_CITATIONS == 2
DEFAULT_SCORE == 68
SCORE_MAX == 100
FALLBACK_SCORE_TOP == 85
FALLBACK_SCORE_STEP == 10
FALLBACK_SCORE_MIN == 50
REASON_CLIP == 48
TITLE_CLIP == 42
SNIPPET_CLIP == 90
LIMIT_ENRICH == 10

SourceTypes == { <<"artifact">>, <<"pdf">>, <<"museum">>, <<"web">> }

\* artifactId: undefined
Absent == <<>>

CandidateIds(candidates) == {candidates[n].id : n \in 1..Len(candidates)}

NormalizeScore_Unclamped(score) == IF score.finite THEN score.value ELSE DEFAULT_SCORE

\* Number.parseInt(String(item.score)) clamped to 0..100, 68 when it is not a number
NormalizeScore(score) ==
    IF score.finite THEN Max(0, Min(SCORE_MAX, score.value)) ELSE DEFAULT_SCORE

OrDefault(text, default) == IF text = <<>> THEN default ELSE text

RECURSIVE NormalizedRecommendations(_, _)
\* .map(...).filter(Boolean) over raw.recommendations
NormalizedRecommendations(items, candidateIds) ==
    IF items = <<>> THEN <<>>
    ELSE LET item == Head(items)
             id == safeString(item.id)
         IN  (IF id \notin candidateIds THEN <<>>
              ELSE << [ id |-> id,
                        reason |-> clipText(OrDefault(safeString(item.reason), <<"x">>), REASON_CLIP),
                        score |-> NormalizeScore(item.score) ] >>)
             \o NormalizedRecommendations(Tail(items), candidateIds)

RECURSIVE NormalizedCitations(_, _)
\* .map(...).filter(Boolean) over raw.citations
NormalizedCitations(items, candidateIds) ==
    IF items = <<>> THEN <<>>
    ELSE LET item == Head(items)
             snippet == clipText(safeString(item.snippet), SNIPPET_CLIP)
             artifactId == safeString(item.artifactId)
             sourceTypeRaw == safeString(item.sourceType)
         IN  (IF snippet = <<>> THEN <<>>
              ELSE << [ title |-> clipText(OrDefault(safeString(item.title), <<"x">>), TITLE_CLIP),
                        snippet |-> snippet,
                        artifactId |-> IF artifactId \in candidateIds THEN artifactId ELSE Absent,
                        sourceType |-> IF sourceTypeRaw \in SourceTypes THEN sourceTypeRaw
                                       ELSE <<"artifact">> ] >>)
             \o NormalizedCitations(Tail(items), candidateIds)

\* normalizeEnrichmentOutput; a raw field that is no array is marked by isArray = FALSE
normalizeEnrichmentOutput(rawOut, candidates) ==
    LET candidateIds == CandidateIds(candidates)
    IN  [ recommendations |->
              IF rawOut.recommendations.isArray
              THEN Take(NormalizedRecommendations(rawOut.recommendations.items, candidateIds), MAX_RECOMMENDATIONS)
              ELSE <<>>,
          citations |->
              IF rawOut.citations.isArray
              THEN Take(NormalizedCitations(rawOut.citations.items, candidateIds), MAX_CITATIONS)
              ELSE <<>> ]

RECURSIVE FindById(_, _)
\* candidates.find((item) => item.id === artifactId), as a sequence of at most one item
FindById(candidates, artifactId) ==
    IF candidates = <<>> THEN <<>>
    ELSE IF Head(candidates).id = artifactId THEN <<Head(candidates)>>
    ELSE FindById(Tail(candidates), artifactId)

RECURSIVE WithoutId(_, _)
\* candidates.filter((item) => item.id !== artifactId)
WithoutId(candidates, artifactId) ==
    IF candidates = <<>> THEN <<>>
    ELSE (IF Head(candidates).id # artifactId THEN <<Head(candidates)>> ELSE <<>>)
         \o WithoutId(Tail(candidates), artifactId)

HasSnippet(citation) == citation.snippet # <<>>

\* buildFallbackEnrichment
buildFallbackEnrichment(candidates, artifactId) ==
    LET preferred == FindById(candidates, artifactId)
        ranked == IF preferred # <<>> THEN preferred \o WithoutId(candidates, artifactId) ELSE candidates
        top == Take(ranked, MAX_RECOMMENDATIONS)
        cited == Take(ranked, FALLBACK_CITATIONS)
    IN  [ recommendations |->
              [n \in 1..Len(top) |->
                  [ id |-> top[n].id,
                    reason |-> <<"x">>,
                    score |-> Max(FALLBACK_SCORE_MIN, FALLBACK_SCORE_TOP - (n - 1) * FALLBACK_SCORE_STEP) ]],
          citations |->
              SelectSeq([n \in 1..Len(cited) |->
                            [ title |-> cited[n].name \o <<"(">> \o cited[n].series \o <<")">>,
                              snippet |-> cited[n].summary,
                              artifactId |-> cited[n].id,
                              sourceType |-> <<"artifact">> ]], HasSnippet) ]

\* the result of enrichGuideAnswerByModel when the model answered: each list is
\* the normalized one, or the fallback's when the normalized one is empty
MergeEnrichment(normalized, fallback) ==
    [ recommendations |-> IF normalized.recommendations # <<>> THEN normalized.recommendations
                          ELSE fallback.recommendations,
      citations |-> IF normalized.citations # <<>> THEN normalized.citations ELSE fallback.citations ]

RawScore(value) == [finite |-> TRUE, value |-> value]
NotANumber == [finite |-> FALSE, value |-> 0]

RawRecommendation(id, score) == [id |-> id, reason |-> <<>>, score |-> score]

RawCitation(snippet, artifactId, sourceType) ==
    [title |-> <<>>, snippet |-> snippet, artifactId |-> artifactId, sourceType |-> sourceType]

RawList(items) == [isArray |-> TRUE, items |-> items]
NoList == [isArray |-> FALSE, items |-> <<>>]

\* what parseJsonObject makes of the model's answer
EnrichAnswers ==
    { [recommendations |-> NoList, citations |-> NoList],
      [recommendations |-> RawList(<< RawRecommendation(Id9, RawScore(50)) >>),
       citations |-> RawList(<< RawCitation(<<" ">>, Id1, <<"web">>) >>)],
      [recommendations |-> RawList(<< RawRecommendation(<<" ">> \o Id1, RawScore(250)),
                                      RawRecommendation(Id9, RawScore(50)),
                                      RawRecommendation(Id1, RawScore(0 - 5)),
                                      RawRecommendation(Id2, NotANumber),
                                      RawRecommendation(Id1, RawScore(40)),
                                      RawRecommendation(Id1, RawScore(41)) >>),
       citations |-> RawList(<< RawCitation(<<"x">>, Id9, <<"blog">>),
                                RawCitation(<<"x">>, Id1, <<" ", "web">>),
                                RawCitation(<<>>, Id1, <<"pdf">>),
                                RawCitation(<<"x">>, <<>>, <<"museum">>),
                                RawCitation(<<"x">>, Id2, <<"pdf">>),
                                RawCitation(<<"x">>, Id1, <<"pdf">>) >>)] }

\* a dataset of four records, so that more candidates exist than are recommended
LargeDataset ==
    << Artifact(Id1, <<"wu", "liang", "ci">>, <<"wu">>, << <<"che", "ma">> >>, <<>>,
                <<"che", "ma", ",", "wu">>, <<>>),
       Artifact(Id2, <<"che", "ma">>, <<>>, <<>>, <<"K", "7">>, <<>>, << <<"wu", "liang", "ci">> >>),
       Artifact(<<"A", "a">>, <<"ci">>, <<>>, <<>>, <<>>, <<"ci">>, <<>>),
       Artifact(Id1, <<"ma", " ", "k">>, <<"che", "ma">>, << <<" ">> >>, <<>>, <<>>, <<>>) >>

EnrichBodies ==
    { [NoEnrichReq EXCEPT !.body = b] : b \in {"invalid json", "too large"} }
    \cup [ body : {"ok"},
           question : { <<>>, <<"wu", "liang", "ci">> },
           answer : { <<" ">>, <<"che", "ma">> },
           scope : { <<>>, <<"artifact">> },
           artifactId : { <<>>, Id2 \o <<" ">>, Id9 },
           artifactName : { <<>> } ]

\* The candidates of an enrich request. The server picks them for question,
\* answer and artifactName with limit 10; the edge function takes the candidates
\* of resolveArtifactGrounding({scope, artifactId, artifactName, question:
\* question + "\n" + answer}), which picks them for the query of that input with
\* the limit of its scope.
EnrichCandidatesOf(body) ==
    LET question == safeString(body.question)
        answer == safeString(body.answer)
        artifactName == safeString(body.artifactName)
        input == [ scope |-> safeString(body.scope), artifactId |-> safeString(body.artifactId),
                   artifactName |-> artifactName,
                   question |-> question \o <<"\n">> \o answer, history |-> <<>> ]
    IN  pickArtifactCandidates(catalog,
            IF variant = "server" THEN question \o <<"\n">> \o answer \o <<"\n">> \o artifactName
            ELSE QueryOf(input),
            safeString(body.artifactId),
            IF variant = "server" THEN LIMIT_ENRICH ELSE LimitOf(input))

EnrichInit ==
    /\ SanIdle
    /\ variant \in {"server", "edge"}
    /\ hasApiKey \in BOOLEAN
    /\ ReqQuiet
    /\ catalog = <<>>
    /\ gInput = NoInput /\ grounding = NoGrounding /\ gphase = "boot"
    /\ payload = NoPayload /\ groundingCalls = 0
    /\ webSearchEnabled = TRUE
    /\ WishIdle
    /\ enrichReq \in EnrichBodies
    /\ epc = "start"
    /\ enrichCandidates = <<>>
    /\ enrichResp = NoEnrichResp
    /\ enrichFetched = FALSE
    /\ NormIdle
    /\ ExtraIdle

EnrichError(status) == [status |-> status, recommendations |-> <<>>, citations |-> <<>>, via |-> "error"]

EnrichResult(result, via) ==
    [status |-> 200, recommendations |-> result.recommendations, citations |-> result.citations, via |-> via]

\* const ARTIFACT_CATALOG = loadArtifactCatalog(), before any request is served
LoadEnrichCatalog ==
    /\ gphase = "boot"
    /\ \E dataset \in Datasets \cup {LargeDataset} : catalog' = loadArtifactCatalog(dataset)
    /\ gphase' = "serve"
    /\ UNCHANGED <<sanVars, ctx, reqVars, auxVars, gInput, grounding, payload, groundingCalls, webSearchEnabled>>

\* The handler up to the await of callBigModel. The server calls requireApiKey
\* first; in the edge function callBigModel calls it, inside the try block whose
\* catch answers with the fallback.
EnrichStart ==
    /\ epc = "start"
    /\ gphase = "serve"
    /\ UNCHANGED <<sanVars, ctx, reqVars, groundVars, extraVars, wishVars, normVars, enrichReq, enrichFetched>>
    /\ IF variant = "server" /\ ~hasApiKey
       THEN /\ enrichResp' = EnrichError(ErrorStatus(Failure("missing key")))
            /\ epc' = "done" /\ UNCHANGED enrichCandidates
       ELSE IF enrichReq.body # "ok"
       THEN /\ enrichResp' = EnrichError(ErrorStatus(Failure(enrichReq.body)))
            /\ epc' = "done" /\ UNCHANGED enrichCandidates
       ELSE IF safeString(enrichReq.question) = <<>> \/ safeString(enrichReq.answer) = <<>>
       THEN /\ enrichResp' = EnrichError(400)
            /\ epc' = "done" /\ UNCHANGED enrichCandidates
       ELSE LET candidates == EnrichCandidatesOf(enrichReq)
                fallback == buildFallbackEnrichment(candidates, safeString(enrichReq.artifactId))
            IN  /\ enrichCandidates' = candidates
                /\ IF candidates = <<>> \/ ~hasApiKey
                   THEN enrichResp' = EnrichResult(fallback, "fallback") /\ epc' = "done"
                   ELSE epc' = "model" /\ UNCHANGED enrichResp

\* callBigModel returned an answer
EnrichModelAnswers ==
    /\ epc = "model"
    /\ \E rawOut \in EnrichAnswers :
          enrichResp' = EnrichResult(
              MergeEnrichment(normalizeEnrichmentOutput(rawOut, enrichCandidates),
                              buildFallbackEnrichment(enrichCandidates, safeString(enrichReq.artifactId))),
              "model")
    /\ enrichFetched' = TRUE
    /\ epc' = "done"
    /\ UNCHANGED <<sanVars, ctx, reqVars, groundVars, extraVars, wishVars, normVars, enrichReq, enrichCandidates>>

\* callBigModel threw after its attempts: the catch block returns the fallback
EnrichModelFails ==
    /\ epc = "model"
    /\ enrichResp' = EnrichResult(buildFallbackEnrichment(enrichCandidates, safeString(enrichReq.artifactId)),
                                  "fallback")
    /\ enrichFetched' = TRUE
    /\ epc' = "done"
    /\ UNCHANGED <<sanVars, ctx, reqVars, groundVars, extraVars, wishVars, normVars, enrichReq, enrichCandidates>>

EnrichNext == LoadEnrichCatalog \/ EnrichStart \/ EnrichModelAnswers \/ EnrichModelFails

SpecEnrich == EnrichInit /\ [][EnrichNext]_vars

\* C16: every enrich result has at most 3 recommendations, each with the id of a
\* candidate and a score in 0..100, and at most 4 citations, each with a known
\* sourceType and an artifactId that is absent or a candidate's; with candidates
\* the recommendations are never empty, whether the model answered or not
C16_EnrichResultWellFormed ==
    (epc = "done" /\ enrichResp.status = 200) =>
        LET ids == CandidateIds(enrichCandidates)
            recs == enrichResp.recommendations
            cites == enrichResp.citations
        IN  /\ Len(recs) <= 3
            /\ \A n \in 1..Len(recs) : recs[n].id \in ids /\ recs[n].score \in 0..100
            /\ Len(cites) <= 4
            /\ \A n \in 1..Len(cites) :
                   /\ cites[n].sourceType \in SourceTypes
                   /\ cites[n].artifactId = Absent \/ cites[n].artifactId \in ids
            /\ enrichCandidates # <<>> => recs # <<>>

C16_Witness_ModelListsCutAndClamped ==
    /\ epc = "done" /\ enrichResp.via = "model"
    /\ Len(enrichCandidates) = 4
    /\ Len(enrichResp.recommendations) = 3
    /\ enrichResp.recommendations[1].score = 100
    /\ enrichResp.recommendations[2].score = 0
    /\ enrichResp.recommendations[3].score = DEFAULT_SCORE
    /\ Len(enrichResp.citations) = 4
    /\ enrichResp.citations[1].artifactId = Absent

\* C17: a 400 response is produced only for input errors; a failure of the
\* upstream call, whatever its status and whatever its error body says, is never
\* reported to the caller as 400
C17_BadRequestOnlyForInputErrors ==
    httpStatus = 400 => lastError.kind = "none" /\ attempt = 0

\* C18: POST /api/ai/chat answers 200 only with a non-empty sanitized answer, 502
\* when the model's answer is empty after sanitization, and 400 without any
\* upstream call when the question is missing or blank
C18_ChatStatusByAnswerAndQuestion ==
    (endpoint = "chat" /\ hpc = "finished") =>
        /\ httpStatus = 200 => sanitizeAnswerContent(response, ctx) # <<>>
        /\ (cpc = "returned" /\ sanitizeAnswerContent(response, ctx) = <<>>) => httpStatus = 502
        /\ ctx.question = "" => httpStatus = 400 /\ attempt = 0

\* C19: with no API key configured, a well-formed chat, chat-stream or enrich
\* request makes no upstream fetch and ends with a 5xx response, in the server
\* and in the edge functions
C19_NoKeyNoFetchAndServerError ==
    ~hasApiKey =>
        /\ (hpc = "finished" /\ ctx.question # "") =>
               attempt = 0 /\ httpStatus \in 500..599
        /\ (/\ epc = "done" /\ enrichReq.body = "ok"
            /\ safeString(enrichReq.question) # <<>> /\ safeString(enrichReq.answer) # <<>>) =>
               ~enrichFetched /\ enrichResp.status \in 500..599

----------------------------------------------------------------------------
(* normalizeSearchText applied to a value, and again to its result           *)

MaxTextLen == 3

\* typeof value === "string" ? value : ""
TextOf(value) == IF value.type = "string" THEN value.text ELSE <<>>

\* \p{L} and \p{N}
IsLetterOrNumber(c) == IsHan(c) \/ IsDigit(c) \/ c \in {"k", "K"}

\* normalizeSearchText of the edge functions: every run of characters that are
\* neither letters nor numbers becomes one space
normalizeSearchTextEdge(text) ==
    LET t == safeString(text)
        blanked == [n \in 1..Len(t) |-> IF IsLetterOrNumber(t[n]) THEN ToLower(t[n]) ELSE " "]
    IN  IF t = <<>> THEN <<>> ELSE Trim(CollapseSpaces(blanked))

\* a capital, a Han character, a digit, a punctuation mark both variants blank,
\* a symbol only the edge variant blanks, and whitespace
TextAlphabet == {"K", "wu", "7", ",", "+", " ", "\n"}

NormInputs ==
    { JsString(text) : text \in UNION { [1..n -> TextAlphabet] : n \in 0..MaxTextLen } }
    \cup { JsOther("undefined"), JsOther("number") }

NormalizedBy(kind, value) ==
    IF kind = "server" THEN normalizeSearchText(TextOf(value)) ELSE normalizeSearchTextEdge(TextOf(value))

NormInit ==
    /\ SanIdle
    /\ variant \in {"server", "edge"}
    /\ hasApiKey = TRUE
    /\ ReqQuiet
    /\ GroundIdle
    /\ WishIdle /\ EnrichIdle /\ ExtraIdle
    /\ normIn \in NormInputs
    /\ normOnce = <<>> /\ normTwice = <<>>
    /\ npc = "input"

\* normalizeSearchText(x)
NormalizeOnce ==
    /\ npc = "input"
    /\ normOnce' = NormalizedBy(variant, normIn)
    /\ npc' = "once"
    /\ UNCHANGED <<sanVars, ctx, reqVars, groundVars, extraVars, wishVars, enrichVars, normIn, normTwice>>

\* normalizeSearchText(normalizeSearchText(x))
NormalizeTwice ==
    /\ npc = "once"
    /\ normTwice' = NormalizedBy(variant, JsString(normOnce))
    /\ npc' = "twice"
    /\ UNCHANGED <<sanVars, ctx, reqVars, groundVars, extraVars, wishVars, enrichVars, normIn, normOnce>>

NormNext == NormalizeOnce \/ NormalizeTwice

SpecNormalize == NormInit /\ [][NormNext]_vars

\* C20: normalizeSearchText returns a string for every value (the empty string
\* for a value that is no string) and normalizing its result again changes nothing
C20_NormalizeTotalAndIdempotent ==
    /\ npc \in {"once", "twice"} =>
          /\ \A n \in 1..Len(normOnce) : normOnce[n] \in TextAlphabet \cup {"k"}
          /\ normIn.type # "string" => normOnce = <<>>
    /\ npc = "twice" => normTwice = normOnce

C20_Witness_PunctuatedInputStable ==
    /\ npc = "twice"
    /\ variant = "server"
    /\ normIn = JsString(<<",", "K", ",">>)
    /\ normOnce = <<"k">>
    /\ normTwice = <<"k">>

----------------------------------------------------------------------------
(* The marker sanitizeAnswerContent appends for a "which artifact" question  *)

\* the appended marker: [CARD:<id>|<the fixed system note>]
SyntheticMarker(id) == MarkerHead \o id \o <<"|">> \o SysNote \o <<"]">>

\* occurrences of the fixed system note in a text
SysNoteCount(s) == Cardinality({n \in 1..Len(s) : s[n] = "SYS"})

EndsWith(s, tail) ==
    Len(s) >= Len(tail) /\ SubSeq(s, Len(s) - Len(tail) + 1, Len(s)) = tail

\* a marker with an allowed id is found in the canonicalized answer
AllowedMarkerFound(answer, allowedSet) ==
    LET ids == MarkerIds(canonicalizeCardMarkerSyntax(safeString(answer)), 1)
    IN  \E n \in 1..Len(ids) : ids[n] \in allowedSet

\* the four conditions under which the marker is due
SyntheticMarkerDue(answer, context) ==
    /\ ~AllowedMarkerFound(answer, context.allowedArtifactIds)
    /\ shouldForceMarkerByIntent(context.question)
    /\ context.primaryArtifactId \in context.allowedArtifactIds
    /\ context.primaryArtifactScore >= FORCE_SCORE

\* C21: sanitizeAnswerContent appends exactly one marker citing primaryArtifactId
\* with the system note if and only if no allowed marker was found, the question
\* has the which-artifact intent, primaryArtifactId is allowed and its score is at
\* least 120, and appends none otherwise, for every raw answer, the empty one included
C21_SyntheticMarkerIffDue ==
    sphase = "done" =>
        IF SyntheticMarkerDue(RawText, ctx)
        THEN SysNoteCount(out) = 1 /\ EndsWith(out, SyntheticMarker(ctx.primaryArtifactId))
        ELSE SysNoteCount(out) = 0

----------------------------------------------------------------------------
(* Layout of the markers in the sanitized answer                             *)

RECURSIVE MarkerSpans(_, _)
\* first and last index of each marker of a text, in the left-to-right scan
MarkerSpans(s, i) ==
    IF i > Len(s) THEN <<>>
    ELSE LET m == MarkerAt(s, i)
         IN  IF m.ok THEN << <<i, m.next - 1>> >> \o MarkerSpans(s, m.next)
             ELSE MarkerSpans(s, i + 1)

\* line breaks directly before index i
RECURSIVE BreaksBefore(_, _)
BreaksBefore(s, i) ==
    IF i <= 1 THEN 0
    ELSE IF s[i - 1] = "\n" THEN 1 + BreaksBefore(s, i - 1) ELSE 0

\* line breaks directly after index i
BreaksAfter(s, i) == NlRunEnd(s, i + 1) - (i + 1)

\* the marker is alone on its line: it holds no line break, and a line break or
\* the start (end) of the text is next to it
OnOwnLine(s, span) ==
    /\ \A n \in span[1]..span[2] : s[n] # "\n"
    /\ span[1] = 1 \/ s[span[1] - 1] = "\n"
    /\ span[2] = Len(s) \/ s[span[2] + 1] = "\n"

\* exactly one blank line (two line breaks) between the marker and what is
\* before and after it, except at the start and the end of the text
BlankLineAround(s, span) ==
    /\ span[1] = 1 \/ BreaksBefore(s, span[1]) = 2
    /\ span[2] = Len(s) \/ BreaksAfter(s, span[2]) = 2

NoTripleBreak(s) ==
    \A n \in 1..Len(s) : s[n] = "\n" => NlRunEnd(s, n) - n < 3

\* C22: in the output of sanitizeAnswerContent every marker is alone on its line
\* and is separated from what is before and after it by exactly one blank line
\* (except at the start or the end), and the output holds no run of three or
\* more line breaks
C22_MarkersOnOwnLineWithBlankLines ==
    sphase = "done" =>
        LET spans == MarkerSpans(out, 1)
        IN  /\ \A n \in 1..Len(spans) : OnOwnLine(out, spans[n]) /\ BlankLineAround(out, spans[n])
            /\ NoTripleBreak(out)

----------------------------------------------------------------------------
(* Which markers survive                                                     *)

RECURSIVE SurvivingIds(_, _)
\* ids of the markers of the output that are not the appended system marker
SurvivingIds(s, i) ==
    IF i > Len(s) THEN <<>>
    ELSE LET m == MarkerAt(s, i)
         IN  IF ~m.ok THEN SurvivingIds(s, i + 1)
             ELSE (IF m.seg = <<"|">> \o SysNote THEN <<>> ELSE <<m.id>>) \o SurvivingIds(s, m.next)

RECURSIVE AllowedOnly(_, _)
AllowedOnly(ids, allowedSet) ==
    IF ids = <<>> THEN <<>>
    ELSE (IF Head(ids) \in allowedSet THEN <<Head(ids)>> ELSE <<>>) \o AllowedOnly(Tail(ids), allowedSet)

\* the first three markers of the canonicalized answer whose id is allowed
FirstAllowedIds(answer, allowedSet) ==
    LET ids == AllowedOnly(MarkerIds(canonicalizeCardMarkerSyntax(safeString(answer)), 1), allowedSet)
    IN  SubSeq(ids, 1, IF Len(ids) < MARKER_CAP THEN Len(ids) ELSE MARKER_CAP)

\* C23: the markers that survive sanitizeAnswerContent are exactly the first three
\* markers of the canonicalized answer, left to right, whose id is in
\* allowedArtifactIds, with ids and order unchanged; markers with another id and
\* allowed markers after the third are removed
C23_SurvivorsAreFirstThreeAllowed ==
    sphase = "done" =>
        SurvivingIds(out, 1) = FirstAllowedIds(RawText, ctx.allowedArtifactIds)

----------------------------------------------------------------------------
(* The web-search tool block of the chat payload                             *)

\* C24: buildChatPayload attaches the web-search tool block if and only if scope
\* is museum, web search is enabled in the configuration, and the question has no
\* lookup intent or has one while primaryArtifactScore < 120; for scope artifact
\* the payload has no tools block
C24_ToolsIffMuseumSearchDue ==
    payload.built =>
        LET museum == safeString(gInput.scope) # <<"artifact">>
            intent == Includes(safeString(gInput.question), <<"na", "kuai">>)
        IN  /\ payload.tools <=>
                (museum /\ webSearchEnabled /\ (~intent \/ grounding.primaryArtifactScore < 120))
            /\ ~museum => ~payload.tools

\* a museum question with lookup intent and a weak primary candidate gets the tools block
C24_Witness_IntentWithWeakPrimary ==
    /\ payload.built /\ payload.tools
    /\ payload.scope = "museum"
    /\ Includes(payload.question, <<"na", "kuai">>)
    /\ grounding.candidates # <<>>
    /\ grounding.primaryArtifactScore < 120

----------------------------------------------------------------------------
(* The read loop of callBigModelStream over one upstream stream, cut into    *)
(* chunks at any place                                                       *)

MaxSseLines == 2

\* lines an upstream stream is made of (without their line end)
SseLines ==
    { <<"data:", " ", "{", "dx", "}">>,
      <<" ", "data:", "{", "dm1", "}">>,
      <<"data:", " ", "{", "}">>,
      <<"data:", " ", "{", "dx">>,
      <<"data:", " ", "[DONE]">>,
      <<"CMT">> }

\* the lines with their line end
SseEndedLines ==
    { l \o <<"\n">> : l \in SseLines }
        \cup { <<"data:", " ", "{", "dx", "}", "\r", "\n">>, <<"\r", "\n">> }

\* streams: up to MaxSseLines ended lines, then a last line that may lack its line end
SseStreams ==
    { Flatten(ls) \o last : ls \in UNION { [1..n -> SseEndedLines] : n \in 0..MaxSseLines },
                            last \in SseLines \cup { <<>> } }

SseInit ==
    /\ SanIdle
    /\ ReqIdle
    /\ GroundIdle
    /\ WishIdle /\ EnrichIdle /\ NormIdle /\ ConcIdle /\ MoreIdle
    /\ sseStream \in SseStreams
    /\ ssePos = 0 /\ sseBuffer = <<>> /\ sseDelivered = <<>> /\ sseCutFrame = FALSE
    /\ ssepc = "read"

\* one turn of the read loop: reader.read() delivers the next part of the stream,
\* of any length; the buffer is processed and its rest kept
SseRead ==
    /\ ssepc = "read"
    /\ ssePos < Len(sseStream)
    /\ \E k \in 1..(Len(sseStream) - ssePos) :
        LET chunk == SubSeq(sseStream, ssePos + 1, ssePos + k)
            p == processSseBuffer(sseBuffer \o chunk)
        IN  /\ sseBuffer' = p.rest
            /\ sseDelivered' = sseDelivered \o FrameDeltas(p.events)
            /\ ssePos' = ssePos + k
            /\ sseCutFrame' = (sseCutFrame \/ (ssePos + k < Len(sseStream) /\ Trim(p.rest) # <<>>))
    /\ UNCHANGED <<sanVars, ctx, reqVars, groundVars, wishVars, enrichVars, normVars, requests, moreVars,
                   sseStream, ssepc>>

\* reader.read() reports the end: a buffer that is not blank is processed once
\* more with a line end appended, and the call returns
SseEnd ==
    /\ ssepc = "read"
    /\ ssePos = Len(sseStream)
    /\ LET p == IF Trim(sseBuffer) # <<>> THEN processSseBuffer(sseBuffer \o <<"\n">>)
                ELSE [events |-> <<>>, rest |-> sseBuffer]
       IN  sseDelivered' = sseDelivered \o FrameDeltas(p.events)
    /\ ssepc' = "done"
    /\ UNCHANGED <<sanVars, ctx, reqVars, groundVars, wishVars, enrichVars, normVars, requests, moreVars,
                   sseStream, ssePos, sseBuffer, sseCutFrame>>

SseNext == SseRead \/ SseEnd

SpecSse == SseInit /\ [][SseNext]_vars

Blanks(n) == [k \in 1..n |-> " "]

\* the line is the data: frame f: "data:" and the JSON text of f, with blanks
\* allowed before, between and after
IsFrameLine(line, f) ==
    \E a, b \in 0..Len(line) :
        LET c == Len(line) - a - b - 1 - Len(JsonText(f))
        IN  c >= 0 /\ line = Blanks(a) \o <<"data:">> \o Blanks(b) \o JsonText(f) \o Blanks(c)

\* what a whole line contributes: the delta text of the frame it is, if any
DeltaOfLine(line) ==
    IF \E f \in DataFrames : IsFrameLine(line, f) /\ FrameDelta[f] # <<>>
    THEN << FrameDelta[CHOOSE f \in DataFrames : IsFrameLine(line, f)] >>
    ELSE <<>>

RECURSIVE ExpectedDeltas(_, _)
\* the delta texts of the well-formed frames of a stream read as a whole, from
\* index from on; a line ends at "\n" (a "\r" before it belongs to the line end)
\* or at the end of the stream
ExpectedDeltas(s, from) ==
    IF from > Len(s) THEN <<>>
    ELSE LET e == FindFirst(s, from, {"\n"})
             withCr == e - 1 >= from /\ s[e - 1] = "\r"
             line == SubSeq(s, from, IF withCr THEN e - 2 ELSE e - 1)
         IN  DeltaOfLine(line) \o ExpectedDeltas(s, e + 1)

\* C25: however the upstream stream is cut into chunks, the deltas delivered
\* are, in order, the delta texts of its well-formed data: frames; blank lines,
\* other lines, the [DONE] sentinel and malformed frames add nothing and stop
\* nothing, and a last line without a line end is processed exactly once
C25_DeltasIndependentOfChunking ==
    /\ ssepc = "read" => IsPrefix(sseDelivered, ExpectedDeltas(sseStream, 1))
    /\ ssepc = "done" => sseDelivered = ExpectedDeltas(sseStream, 1)

\* a malformed frame, then a frame, then a frame without its line end, read in
\* chunks that cut a line
C25_Witness_CutStreamWithMalformedAndTail ==
    /\ ssepc = "done"
    /\ sseCutFrame
    /\ sseStream = <<"data:", " ", "{", "dx", "\n", "data:", " ", "{", "dx", "}", "\r", "\n",
                     " ", "data:", "{", "dm1", "}">>
    /\ sseDelivered = << <<"x">>, <<"[", "CARD", ":", "A", "1", "]">> >>

----------------------------------------------------------------------------
(* Concurrent chat-stream requests of the server: the handler's variables    *)
(* are local to the request, ARTIFACT_CATALOG and MAX_RETRIES are shared     *)

MaxRequests == 2

Requests == 1..MaxRequests

\* bodies of the requests
ConcInputs ==
    { [scope |-> <<>>, artifactId |-> <<>>, artifactName |-> <<>>,
       question |-> <<"wu", "liang", "ci", "na", "kuai">>, history |-> <<>>],
      [scope |-> <<"artifact">>, artifactId |-> Id2, artifactName |-> <<"che", "ma">>,
       question |-> <<"K", "7", ",", "ma">>, history |-> <<>>] }

\* the deltas the upstream sends for a request, in order
UpstreamDeltasFor(input) ==
    IF Includes(input.question, <<"na", "kuai">>)
    THEN << <<"x">>, <<"[", "CARD", ":", "A", "9", "]">> >>
    ELSE << <<"[", "CARD", ":", "A", "1", "]">>, <<"x">> >>

ConcDataset ==
    << Artifact(Id1, <<"wu", "liang", "ci">>, <<"wu">>, << <<"che", "ma">> >>, <<>>,
                <<"che", "ma", ",", "wu">>, <<>>) >>

NewRequest ==
    [pc |-> "new", input |-> NoInput,
     context |-> [allowedArtifactIds |-> {}, question |-> "", primaryArtifactId |-> <<>>,
                  primaryArtifactScore |-> 0],
     attempt |-> 0, receivedAnyChunk |-> FALSE, fullAnswer |-> <<>>, modelName |-> "MODEL",
     events |-> <<>>, deltas |-> <<>>]

\* the answer context the chat-stream handler hands to handleChatStream
ContextOf(g, input) ==
    [ allowedArtifactIds |-> g.allowedArtifactIds,
      question |-> QuestionKind(safeString(input.question)),
      primaryArtifactId |-> g.primaryArtifactId,
      primaryArtifactScore |-> g.primaryArtifactScore ]

AnswerContextOf(cat, input) ==
    CHOOSE c \in { ContextOf(g, input) : g \in { resolveArtifactGrounding(cat, input) } } : TRUE

ConcInit ==
    /\ SanIdle
    /\ variant = "server" /\ hasApiKey = TRUE
    /\ endpoint = "chat-stream"
    /\ maxRetries \in {1, 2}
    /\ hpc = "off" /\ cpc = "idle" /\ attempt = 0 /\ timerArmed = FALSE
    /\ receivedAnyChunk = FALSE /\ respStatus = 0 /\ buffer = <<>> /\ fullAnswer = <<>>
    /\ modelName = "" /\ response = <<>> /\ pendingWrites = <<>> /\ events = <<>>
    /\ closed = FALSE /\ httpStatus = 0 /\ lastError = [kind |-> "none", status |-> 0] /\ clientConnected = TRUE
    /\ reads = 0 /\ backoffs = <<>> /\ inFlight = 0 /\ prevOutcome = [kind |-> "none", status |-> 0]
    /\ deltaAttempts = {} /\ upstreamDeltas = <<>>
    /\ catalog = <<>>
    /\ gInput = NoInput /\ grounding = NoGrounding /\ gphase = "boot"
    /\ payload = NoPayload /\ groundingCalls = 0 /\ webSearchEnabled = TRUE
    /\ WishIdle /\ EnrichIdle /\ NormIdle /\ SseIdle /\ MoreIdle
    /\ requests = [r \in Requests |-> NewRequest]

ConcFrame == UNCHANGED <<sanVars, ctx, reqVars, groundVars, wishVars, enrichVars, normVars, sseVars, moreVars>>

\* const ARTIFACT_CATALOG = loadArtifactCatalog(), before the server listens
ConcLoadCatalog ==
    /\ gphase = "boot"
    /\ \E dataset \in { ConcDataset, <<>> } : catalog' = loadArtifactCatalog(dataset)
    /\ gphase' = "serve"
    /\ UNCHANGED <<sanVars, ctx, reqVars, auxVars, gInput, grounding, payload, groundingCalls, webSearchEnabled>>

\* fullAnswer += delta, when every request appended to one variable
OnDelta_SharedAnswer(r, delta) ==
    Concat([o \in Requests |-> requests[o].fullAnswer]) \o delta

\* onDelta: fullAnswer += delta, on the fullAnswer of the handler's own call
OnDelta(r, delta) == requests[r].fullAnswer \o delta

\* POST /api/ai/chat-stream with a question: grounding, payload, answer context
\* and the stream headers, up to the fetch of the first attempt
ConcStart(r) ==
    /\ gphase = "serve"
    /\ requests[r].pc = "new"
    /\ \E input \in ConcInputs :
        requests' = [requests EXCEPT ![r] =
            [@ EXCEPT !.pc = "stream", !.input = input,
                      !.context = AnswerContextOf(catalog, input), !.attempt = 1]]
    /\ ConcFrame

\* a chunk with one delta frame arrives for request r
ConcDelta(r) ==
    /\ requests[r].pc = "stream"
    /\ Len(requests[r].deltas) < Len(UpstreamDeltasFor(requests[r].input))
    /\ LET delta == UpstreamDeltasFor(requests[r].input)[Len(requests[r].deltas) + 1]
           full == OnDelta(r, delta)
       IN  requests' = [requests EXCEPT ![r] =
               [@ EXCEPT !.receivedAnyChunk = TRUE, !.fullAnswer = full,
                         !.events = Append(@, DeltaEvent(delta, full)),
                         !.deltas = Append(@, delta)]]
    /\ ConcFrame

\* the attempt of request r fails: the loop goes on when attempt < MAX_RETRIES
\* and no chunk was received, else the error event is written
ConcAttemptFails(r) ==
    /\ requests[r].pc = "stream"
    /\ requests' = [requests EXCEPT ![r] =
          IF ShouldRetryStream(@.attempt, maxRetries, @.receivedAnyChunk)
          THEN [@ EXCEPT !.attempt = @ + 1]
          ELSE [@ EXCEPT !.pc = "failed", !.events = Append(@, ErrorEvent(Failure("read")))]]
    /\ ConcFrame

\* the stream of request r ends: the done event is written
ConcEnd(r) ==
    /\ requests[r].pc = "stream"
    /\ LET rq == requests[r]
       IN  requests' = [requests EXCEPT ![r] =
               [@ EXCEPT !.pc = "done",
                         !.events = Append(@, DoneEvent(rq.fullAnswer, rq.context, rq.modelName))]]
    /\ ConcFrame

ConcNext ==
    \/ ConcLoadCatalog
    \/ \E r \in Requests : ConcStart(r) \/ ConcDelta(r) \/ ConcAttemptFails(r) \/ ConcEnd(r)

SpecConcurrent == ConcInit /\ [][ConcNext]_vars

\* the context of a request depends on its own body (and the shared catalog)
\* only: requests with the same body have the same context
OwnContext(r) ==
    \A o \in Requests :
        (requests[r].pc # "new" /\ requests[o].pc # "new" /\ requests[o].input = requests[r].input)
            => requests[o].context = requests[r].context

\* the events of request r are those of its own deltas and its own context
OwnEvents(r) ==
    LET rq == requests[r]
        n == Len(rq.deltas)
    IN  /\ Len(rq.events) = n + (IF rq.pc \in {"done", "failed"} THEN 1 ELSE 0)
        /\ \A k \in 1..n : rq.events[k] = DeltaEvent(rq.deltas[k], Concat(SubSeq(rq.deltas, 1, k)))
        /\ rq.pc = "done" =>
              rq.events[n + 1] = DoneEvent(Concat(rq.deltas), rq.context, "MODEL")
        /\ rq.pc = "failed" => rq.events[n + 1].type = "error"

\* once the server listens, a step belongs to one request and leaves the others,
\* the catalog and the retry configuration as they are
StepIsLocal ==
    gphase = "serve" =>
        /\ \E r \in Requests : \A o \in Requests \ {r} : requests'[o] = requests[o]
        /\ catalog' = catalog
        /\ maxRetries' = maxRetries

\* C26: under any interleaving of concurrent requests each stream's events are
\* built from that request's own deltas and grounding context only, a step of one
\* request (its failure included) changes nothing of another request, and no
\* request changes the shared catalog or the retry configuration
C26_RequestsIsolated ==
    /\ [](requests # <<>> => \A r \in Requests : OwnEvents(r) /\ OwnContext(r))
    /\ [][StepIsLocal]_vars

\* request 1 failed after a delta while request 2, asked another question, ended
\* with its own two deltas
C26_Witness_OneFailsOtherDone ==
    /\ requests # <<>>
    /\ requests[1].pc = "failed" /\ requests[1].deltas = << <<"x">> >>
    /\ requests[2].pc = "done" /\ Len(requests[2].deltas) = 2
    /\ requests[1].input # requests[2].input
    /\ requests[1].context # requests[2].context

----------------------------------------------------------------------------
(* The scoring body of pickArtifactCandidates, with its hit counters *)

\* structuredHitCount and summaryHitCount of one catalog item at the end of
\* the scoring body
ScoreCounters(item, preferredId, normalizedQuery, tokens, phrases) ==
    LET preferred == If(preferredId # <<>> /\ item.id = preferredId, Hits(0, 1, 0))
        whole == If(/\ normalizedQuery # <<>>
                    /\ Includes(item.summaryNorm, normalizedQuery)
                    /\ ~Includes(item.nameNorm, normalizedQuery), Hits(0, 0, 1))
    IN  AddHits(preferred, AddHits(SumPhraseHits(item, phrases), AddHits(SumTokenHits(item, tokens), whole)))

\* records whose summary holds the words of the query and whose structured
\* fields hold none, records with one word of the query in series or name,
\* a record that holds the query in its name; all of richness 4
ScoreArtifacts ==
    { Artifact(Id1, <<"K">>, <<>>, <<>>, <<>>, <<"wu", "liang", "ci", "che">>, <<>>),
      Artifact(Id2, <<"K", "7">>, <<"wu", "liang">>, <<>>, <<>>, <<"ma">>, <<>>),
      Artifact(Id9, <<"wu", "liang">>, <<>>, <<>>, <<>>, <<"ma">>, <<>>),
      Artifact(Id1, <<"wu", "liang", "ci">>, <<>>, <<>>, <<>>, <<"zhan", "pin">>, <<>>),
      Artifact(Id2, <<"7">>, <<>>, <<>>, <<>>, <<"wu", "liang", ",", "ci">>, <<>>) }

ScoreDatasets == [1..2 -> ScoreArtifacts]

ScoreQueries ==
    { <<"wu", "liang">>, <<"wu", "liang", "ci">>, <<"wu", "liang", "ci", "che">>,
      <<"wu", "liang", "ci", "na", "kuai">> }

ScoreInit ==
    /\ SanIdle
    /\ ctx = [allowedArtifactIds |-> {}, question |-> "", primaryArtifactId |-> <<>>, primaryArtifactScore |-> 0]
    /\ ReqIdle
    /\ catalog = <<>> /\ gInput = NoInput /\ grounding = NoGrounding
    /\ gphase = "boot"
    /\ payload = NoPayload /\ groundingCalls = 0 /\ webSearchEnabled = TRUE
    /\ WishIdle /\ EnrichIdle /\ NormIdle /\ SseIdle /\ ConcIdle /\ ClientIdle
    /\ scQuery = <<>> /\ scScored = <<>>

ScoreFrame == UNCHANGED <<sanVars, ctx, reqVars, wishVars, enrichVars, normVars, sseVars, requests, clientVars,
                          gInput, grounding, payload, groundingCalls, webSearchEnabled>>

\* const ARTIFACT_CATALOG = loadArtifactCatalog()
ScoreLoadCatalog ==
    /\ gphase = "boot"
    /\ \E dataset \in ScoreDatasets : catalog' = loadArtifactCatalog(dataset)
    /\ gphase' = "serve"
    /\ UNCHANGED scoreVars
    /\ ScoreFrame

\* ARTIFACT_CATALOG.map((item) => {...}) of pickArtifactCandidates(queryText, "", limit)
ScoreCatalog ==
    /\ gphase = "serve"
    /\ \E queryText \in ScoreQueries :
        LET normalizedQuery == normalizeSearchText(queryText)
            tokens == tokenizeSearchTerms(queryText)
            phrases == buildSearchPhrases(queryText, tokens)
        IN  /\ scQuery' = queryText
            /\ scScored' = [n \in 1..Len(catalog) |->
                   LET h == ScoreCounters(catalog[n], <<>>, normalizedQuery, tokens, phrases)
                   IN  [ richness |-> catalog[n].richness,
                         score |-> ScoreOf(catalog[n], <<>>, normalizedQuery, tokens, phrases),
                         structuredHitCount |-> h.structured,
                         summaryHitCount |-> h.summary ]]
    /\ gphase' = "scored"
    /\ UNCHANGED catalog
    /\ ScoreFrame

ScoreNext == ScoreLoadCatalog \/ ScoreCatalog

SpecScore == ScoreInit /\ [][ScoreNext]_vars

\* C27: with no preferredId, an item with a structured hit scores strictly
\* higher than every item of the same richness whose hits are all in the summary
C27_StructuredHitOutscoresSummaryHits ==
    \A a, b \in 1..Len(scScored) :
        ( /\ scScored[a].richness = scScored[b].richness
          /\ scScored[a].structuredHitCount >= 1
          /\ scScored[b].structuredHitCount = 0 /\ scScored[b].summaryHitCount > 0 )
        => scScored[a].score > scScored[b].score

----------------------------------------------------------------------------
(* The message list of the payload, over histories longer than HISTORY_MAX_ITEMS *)

MaxHistory == 3

\* entries of a caller's history: every role, one with blank content
HistoryEntries ==
    { [role |-> "user", content |-> <<"che", "ma">>],
      [role |-> "assistant", content |-> <<"wu", " ">>],
      [role |-> "system", content |-> <<"ci">>],
      [role |-> "user", content |-> <<" ">>] }

Histories == UNION { [1..n -> HistoryEntries] : n \in 0..MaxHistory }

PayloadInputs ==
    [ scope : { <<>>, <<"artifact">> },
      artifactId : { <<>> },
      artifactName : { <<>> },
      question : { <<"wu">>, <<" ", "K", "7", "na", "kuai">> },
      history : Histories ]

PayloadInit ==
    /\ SanIdle
    /\ ctx = [allowedArtifactIds |-> {}, question |-> "", primaryArtifactId |-> <<>>, primaryArtifactScore |-> 0]
    /\ ReqIdle
    /\ catalog = <<>> /\ gInput = NoInput /\ grounding = NoGrounding
    /\ gphase = "boot"
    /\ payload = NoPayload /\ groundingCalls = 0 /\ webSearchEnabled = TRUE
    /\ AuxIdle

\* const ARTIFACT_CATALOG = loadArtifactCatalog()
PayloadLoadCatalog ==
    /\ gphase = "boot"
    /\ \E dataset \in { ConcDataset, <<>> } : catalog' = loadArtifactCatalog(dataset)
    /\ gphase' = "serve"
    /\ UNCHANGED <<sanVars, ctx, reqVars, auxVars, gInput, grounding, payload, groundingCalls, webSearchEnabled>>

\* POST /api/ai/chat with a body: const grounding = resolveArtifactGrounding(body)
PayloadResolve ==
    /\ gphase = "serve"
    /\ \E input \in PayloadInputs :
        /\ gInput' = input
        /\ grounding' = resolveArtifactGrounding(catalog, input)
    /\ gphase' = "resolved"
    /\ groundingCalls' = groundingCalls + 1
    /\ UNCHANGED <<sanVars, ctx, reqVars, auxVars, catalog, payload, webSearchEnabled>>

PayloadNext == PayloadLoadCatalog \/ PayloadResolve \/ BuildPayload

SpecPayload == PayloadInit /\ [][PayloadNext]_vars

\* the history message made of one caller entry
HistoryMessageOf(entry) ==
    [ role |-> IF entry.role = "assistant" THEN "assistant" ELSE "user",
      content |-> clipText(safeString(entry.content), HISTORY_ITEM_MAX_CHARS) ]

\* hist is made of the entries of recent with content, in their order: the
\* places of the entries taken go up, and every entry left out is blank
TakenInOrder(hist, recent) ==
    \E f \in [1..Len(hist) -> 1..Len(recent)] :
        /\ \A m, n \in 1..Len(hist) : m < n => f[m] < f[n]
        /\ \A n \in 1..Len(hist) : hist[n] = HistoryMessageOf(recent[f[n]])
        /\ \A k \in 1..Len(recent) :
               (\A n \in 1..Len(hist) : f[n] # k) => safeString(recent[k].content) = <<>>

\* C28: the messages of a payload are one system message first, then at most
\* HISTORY_MAX_ITEMS history messages made of the most recent caller entries in
\* their order, with role user or assistant and content, then the user message
\* with the question
C28_MessagesAreSystemHistoryUser ==
    payload.built =>
        LET msgs == payload.messages
            last == Len(msgs)
            hist == SubSeq(msgs, 2, last - 1)
            given == gInput.history
            recent == SubSeq(given, Max(1, Len(given) - HISTORY_MAX_ITEMS + 1), Len(given))
        IN  /\ last >= 2
            /\ msgs[1].role = "system" /\ msgs[1].content = <<"PROMPT">>
            /\ \A n \in 2..last : msgs[n].role # "system"
            /\ Len(hist) <= HISTORY_MAX_ITEMS
            /\ \A n \in 1..Len(hist) : hist[n].role \in {"user", "assistant"} /\ hist[n].content # <<>>
            /\ TakenInOrder(hist, recent)
            /\ msgs[last].role = "user"
            /\ Includes(msgs[last].content, safeString(gInput.question))

\* a history of three entries, the oldest dropped, a system role coerced
C28_Witness_LongHistoryWithSystemRole ==
    /\ payload.built
    /\ Len(gInput.history) = 3
    /\ gInput.history[1].role = "user" /\ gInput.history[1].content = <<"che", "ma">>
    /\ gInput.history[2].role = "system"
    /\ gInput.history[3].role = "assistant"
    /\ payload.messages =
         << [role |-> "system", content |-> <<"PROMPT">>],
            [role |-> "user", content |-> <<"ci">>],
            [role |-> "assistant", content |-> <<"wu">>],
            [role |-> "user", content |-> <<"wu", "\n", "\n", "INDEX">>] >>

----------------------------------------------------------------------------
(* Grounding over a catalog with more records than the candidate limit *)

MaxOthers == 12

\* the id of the n-th of the records that share one name
OtherId(n) == <<"A", "9">> \o [k \in 1..n |-> "9"]

\* the record the caller declares, and n records named after the question
DeclaredArtifact == Artifact(Id1, <<"che", "ma">>, <<>>, <<>>, <<>>, <<>>, <<>>)

NamedArtifact(n) == Artifact(OtherId(n), <<"wu", "liang", "ci">>, <<>>, <<>>, <<>>, <<"ma">>, <<>>)

CrowdedDatasets ==
    UNION { { <<DeclaredArtifact>> \o [k \in 1..n |-> NamedArtifact(k)],
              [k \in 1..n |-> NamedArtifact(k)] \o <<DeclaredArtifact>> } : n \in 0..MaxOthers }

CrowdedInputs ==
    [ scope : { <<>>, <<"artifact">> },
      artifactId : { <<>>, Id1, Id2 },
      artifactName : { <<>> },
      question : { <<"wu", "liang", "ci">>, <<"che", "ma">> },
      history : { <<>> } ]

CrowdedInit ==
    /\ SanIdle
    /\ ctx = [allowedArtifactIds |-> {}, question |-> "", primaryArtifactId |-> <<>>, primaryArtifactScore |-> 0]
    /\ ReqIdle
    /\ catalog = <<>> /\ gInput = NoInput /\ grounding = NoGrounding
    /\ gphase = "boot"
    /\ payload = NoPayload /\ groundingCalls = 0 /\ webSearchEnabled = TRUE
    /\ AuxIdle

\* const ARTIFACT_CATALOG = loadArtifactCatalog()
CrowdedLoadCatalog ==
    /\ gphase = "boot"
    /\ \E dataset \in CrowdedDatasets : catalog' = loadArtifactCatalog(dataset)
    /\ gphase' = "serve"
    /\ UNCHANGED <<sanVars, ctx, reqVars, auxVars, gInput, grounding, payload, groundingCalls, webSearchEnabled>>

\* a handler calls resolveArtifactGrounding(body)
CrowdedResolve ==
    /\ gphase = "serve"
    /\ \E input \in CrowdedInputs :
        /\ gInput' = input
        /\ grounding' = resolveArtifactGrounding(catalog, input)
    /\ gphase' = "resolved"
    /\ groundingCalls' = groundingCalls + 1
    /\ UNCHANGED <<sanVars, ctx, reqVars, auxVars, catalog, payload, webSearchEnabled>>

CrowdedNext == CrowdedLoadCatalog \/ CrowdedResolve

SpecCrowded == CrowdedInit /\ [][CrowdedNext]_vars

\* C29: a declared artifactId that is the id of a catalog record is in
\* allowedArtifactIds of the grounding
C29_DeclaredArtifactIsAllowed ==
    (gphase = "resolved" /\ \E n \in 1..Len(catalog) : catalog[n].id = safeString(gInput.artifactId))
        => safeString(gInput.artifactId) \in grounding.allowedArtifactIds

----------------------------------------------------------------------------
(* The client reads the event stream of /api/ai/chat-stream: requestBackendStream *)

MaxClientLines == 3

\* lines of a response body: delta events, a done event with an answer and one
\* with an empty answer, an error event, a line that is no JSON, a blank line
ClientLineSet ==
    { Ev("delta", <<"x">>, <<"x">>, "", "none"),
      Ev("delta", <<" ">>, <<"x", " ">>, "", "none"),
      Ev("done", <<>>, <<"x">>, "MODEL", "none"),
      Ev("done", <<>>, <<>>, "MODEL", "none"),
      Ev("error", <<>>, <<>>, "", "failed"),
      Ev("bad", <<>>, <<>>, "", "none"),
      Ev("blank", <<>>, <<>>, "", "none") }

ClientStreams == UNION { [1..n -> ClientLineSet] : n \in 0..MaxClientLines }

\* the answer field of the JSON body of a response without a body stream
FallbackAnswers == { <<>>, <<"x", " ">> }

Returned(value) == [kind |-> "returned", value |-> value, error |-> "none"]

Raised(error) == [kind |-> "raised", value |-> <<>>, error |-> error]

ClientInit ==
    /\ SanIdle
    /\ ctx = [allowedArtifactIds |-> {}, question |-> "", primaryArtifactId |-> <<>>, primaryArtifactScore |-> 0]
    /\ ReqIdle
    /\ GroundIdle
    /\ WishIdle /\ EnrichIdle /\ NormIdle /\ SseIdle /\ ConcIdle /\ ScoreIdle
    /\ clResponse \in {"stream", "notOk", "noBody"}
    /\ clLines \in (IF clResponse = "stream" THEN ClientStreams ELSE { <<>> })
    /\ clCut \in (IF clLines # <<>> THEN BOOLEAN ELSE {FALSE})
    /\ clPos = 0 /\ clAnswer = <<>> /\ clTerminal = NoEvent /\ clOutcome = Pending
    /\ clpc = "fetch"

ClientFrame == UNCHANGED <<sanVars, ctx, reqVars, groundVars, wishVars, enrichVars, normVars, sseVars,
                           requests, scoreVars, clResponse, clLines, clCut>>

\* the lines of the body that end with a line break
CompleteLines == IF clCut THEN Len(clLines) - 1 ELSE Len(clLines)

\* fetch answers: !response.ok raises, a response without a body is read as
\* JSON (readAnswerFromPayload), else the reader is taken
ClientFetch ==
    /\ clpc = "fetch"
    /\ \/ /\ clResponse = "notOk"
          /\ clOutcome' = Raised("http") /\ clpc' = "closed"
       \/ /\ clResponse = "noBody"
          /\ \E text \in FallbackAnswers :
                clOutcome' = IF Trim(text) = <<>> THEN Raised("empty") ELSE Returned(Trim(text))
          /\ clpc' = "closed"
       \/ /\ clResponse = "stream"
          /\ clOutcome' = clOutcome /\ clpc' = "read"
    /\ UNCHANGED <<clPos, clAnswer, clTerminal>>
    /\ ClientFrame

\* answer after one line of type delta
ClientOnDelta(event) == IF event.delta # <<>> THEN clAnswer \o event.delta ELSE clAnswer

\* what the call does after the loop, at the end of the stream
ClientAtEnd(answer) == IF Trim(answer) = <<>> THEN Raised("empty") ELSE Returned(answer)

\* one turn of the inner loop: the next line of the buffer that ends with a
\* line break
ClientReadLine ==
    /\ clpc = "read"
    /\ clPos < CompleteLines
    /\ LET event == clLines[clPos + 1]
       IN  /\ clPos' = clPos + 1
           /\ clAnswer' = IF event.type = "delta" THEN ClientOnDelta(event) ELSE clAnswer
           /\ clTerminal' = IF event.type \in {"done", "error"} THEN event ELSE clTerminal
           /\ clOutcome' = IF event.type = "done"
                           THEN (IF Trim(event.answer) = <<>> THEN Raised("empty") ELSE Returned(event.answer))
                           ELSE IF event.type = "error" THEN Raised(event.error)
                           ELSE clOutcome
           /\ clpc' = IF event.type \in {"done", "error"} THEN "closed" ELSE "read"
    /\ ClientFrame

\* reader.read() gives done: the loop is left, what is left in the buffer is
\* not looked at
ClientStreamEnd ==
    /\ clpc = "read"
    /\ clPos = CompleteLines
    /\ clOutcome' = ClientAtEnd(clAnswer)
    /\ clpc' = "closed"
    /\ UNCHANGED <<clPos, clAnswer, clTerminal>>
    /\ ClientFrame

ClientNext == ClientFetch \/ ClientReadLine \/ ClientStreamEnd

SpecClient == ClientInit /\ [][ClientNext]_vars

\* C30: over an event stream the call returns a value only after it read a done
\* event, the value is the answer of that event, and a call that ends without
\* having read a done event has raised
C30_ClientReturnsOnlyDoneAnswer ==
    clResponse = "stream" =>
        /\ clOutcome.kind = "returned" =>
               clTerminal.type = "done" /\ clOutcome.value = clTerminal.answer
        /\ (clpc = "closed" /\ clTerminal.type # "done") => clOutcome.kind = "raised"

====
